---- MODULE Spec2Model ----
(***************************************************************************)
(* Model of the AI product-entry core of Packgine_Backend:                 *)
(* src/services/aiService.js (TextOptimizer and AIService).                *)
(*                                                                         *)
(* A JavaScript string is a sequence of one-character strings, so that     *)
(* length, split, trim, toLowerCase and includes are computed as the code  *)
(* computes them.                                                          *)
(***************************************************************************)
EXTENDS Integers, Sequences, FiniteSets, TLC

VARIABLES
  text, budget, chunks, cpc,       \* TextOptimizer.chunkText applied to a text
  products, unique, unique2, dpc,  \* AIService.removeDuplicateProducts applied to a list
  aiResponse, parseResult, ppc,    \* AIService.parseAndValidateResponse applied to a text
  optInput, optOnce, optTwice, opc, \* TextOptimizer.optimizeText applied to a text, and again
  fileFormat, fileBuffer, extracted, epc, \* a format extractor applied to a file's buffer
  secText, sections, spc,          \* TextOptimizer.extractProductSections applied to a text
  prioChunks, prioritized, prpc,   \* TextOptimizer.prioritizeChunks applied to a list of chunks
  simProduct1, simProduct2, simScore, simpc,  \* calculateSimilarity applied to two products
  anProduct, anExisting, anResult, anpc,  \* analyzeProductSimilarity applied to a catalog
  requests, frames,                \* calls of processMultipleChunks that run at the same time
  \* One extraction job on the AIService instance:
  entry,              \* the method the job was started with
  currentProvider,    \* this.currentProvider: "groq", "openai" or "null"
  extractedText,      \* the text handed to processWithAI
  optimizedText,      \* optimizeText's result
  jobChunks,          \* chunks (of chunkText, or handed to processMultipleChunks)
  pc,                 \* where the job's code is
  prioritizedChunks,  \* processMultipleChunks' local
  i,                  \* the loop index of processMultipleChunks
  allProducts,        \* processMultipleChunks' local
  processingNotes,    \* processMultipleChunks' local
  inFlight,           \* the positions of the chunks whose request has no answer yet
  callLog,            \* the chunk texts submitted to the provider, in order
  attempts,           \* what each answered request came back with, in order
  result              \* what the job returned or threw

chunkVars == <<text, budget, chunks, cpc>>
dedupeVars == <<products, unique, unique2, dpc>>
parseVars == <<aiResponse, parseResult, ppc>>
jobVars == <<entry, currentProvider, extractedText, optimizedText, jobChunks, pc,
             prioritizedChunks, i, allProducts, processingNotes, inFlight, callLog,
             attempts, result>>
optVars == <<optInput, optOnce, optTwice, opc>>
extractVars == <<fileFormat, fileBuffer, extracted, epc>>
sectionVars == <<secText, sections, spc>>
prioVars == <<prioChunks, prioritized, prpc>>
simVars == <<simProduct1, simProduct2, simScore, simpc>>
analyzeVars == <<anProduct, anExisting, anResult, anpc>>
concVars == <<requests, frames>>
utilVars == <<optVars, extractVars, sectionVars, prioVars, simVars, analyzeVars, concVars>>
vars == <<text, budget, chunks, cpc, products, unique, unique2, dpc, aiResponse, parseResult, ppc,
          optInput, optOnce, optTwice, opc, fileFormat, fileBuffer, extracted, epc,
          secText, sections, spc, prioChunks, prioritized, prpc,
          simProduct1, simProduct2, simScore, simpc,
          anProduct, anExisting, anResult, anpc, requests, frames,
          entry, currentProvider, extractedText, optimizedText, jobChunks, pc,
          prioritizedChunks, i, allProducts, processingNotes, inFlight, callLog,
          attempts, result>>

(***************************************************************************)
(* Bounds of the model.                                                    *)
(***************************************************************************)
MaxLines == 3
MaxBudget == 2
MaxProducts == 3
MaxTokens == 2
MaxChunks == 3
MaxChars == 4
MaxBytes == 2
MaxEntries == 2
MaxSectionLines == 5
MaxPrioritized == 3
MaxCapacity == 2
MaxConcurrentChunks == 2
MaxExisting == 6
\* The providers' token budgets (7000 and 120000 in the source), scaled to the
\* size of the modelled texts: the code only compares estimates with them.
GroqBudget == 2
OpenAIBudget == 4

(***************************************************************************)
(* String primitives.                                                      *)
(***************************************************************************)
NL == "\n"

\* The characters JavaScript's \s and String.prototype.trim treat as white space
\* (those that occur in the modelled texts).
IsSpace(c) == c \in {" ", "\n", "\t"}

RECURSIVE trimStart(_)
trimStart(s) ==
  IF s = <<>> THEN <<>>
  ELSE IF IsSpace(Head(s)) THEN trimStart(Tail(s)) ELSE s

RECURSIVE trimEnd(_)
trimEnd(s) ==
  IF s = <<>> THEN <<>>
  ELSE IF IsSpace(s[Len(s)]) THEN trimEnd(SubSeq(s, 1, Len(s) - 1)) ELSE s

trim(s) == trimEnd(trimStart(s))

\* s.split(sep) for a one-character separator: "" splits to [""].
RECURSIVE splitFrom(_, _, _)
splitFrom(s, sep, cur) ==
  IF s = <<>> THEN <<cur>>
  ELSE IF Head(s) = sep THEN <<cur>> \o splitFrom(Tail(s), sep, <<>>)
  ELSE splitFrom(Tail(s), sep, Append(cur, Head(s)))

split(s, sep) == splitFrom(s, sep, <<>>)

\* str.includes(sub)
includes(str, sub) ==
  \E k \in 0..(Len(str) - Len(sub)) : SubSeq(str, k + 1, k + Len(sub)) = sub

\* lines.join(sep)
RECURSIVE join(_, _)
join(ls, sep) ==
  IF ls = <<>> THEN <<>>
  ELSE IF Len(ls) = 1 THEN ls[1]
  ELSE ls[1] \o <<sep>> \o join(Tail(ls), sep)

UpperToLower ==
  ("A" :> "a") @@ ("B" :> "b") @@ ("C" :> "c") @@ ("D" :> "d")
  @@ ("E" :> "e") @@ ("F" :> "f") @@ ("G" :> "g") @@ ("H" :> "h")
  @@ ("I" :> "i") @@ ("J" :> "j") @@ ("K" :> "k") @@ ("L" :> "l")
  @@ ("M" :> "m") @@ ("N" :> "n") @@ ("O" :> "o") @@ ("P" :> "p")
  @@ ("Q" :> "q") @@ ("R" :> "r") @@ ("S" :> "s") @@ ("T" :> "t")
  @@ ("U" :> "u") @@ ("V" :> "v") @@ ("W" :> "w") @@ ("X" :> "x")
  @@ ("Y" :> "y") @@ ("Z" :> "z")

\* String.prototype.toLowerCase
RECURSIVE toLowerCase(_)
toLowerCase(s) ==
  IF s = <<>> THEN <<>>
  ELSE <<IF Head(s) \in DOMAIN UpperToLower THEN UpperToLower[Head(s)] ELSE Head(s)>>
       \o toLowerCase(Tail(s))

CharsPerToken == 4

\* Math.ceil(text.length / 4)
estimateTokens(s) == (Len(s) + CharsPerToken - 1) \div CharsPerToken

(***************************************************************************)
(* TextOptimizer.optimizeText: the chain of global regular-expression      *)
(* replacements, each a scan from the left that replaces every match and   *)
(* goes on after it.                                                       *)
(***************************************************************************)
\* The length of the longest prefix of s made of white space.
RECURSIVE spaceRun(_)
spaceRun(s) ==
  IF s = <<>> \/ ~IsSpace(Head(s)) THEN 0 ELSE 1 + spaceRun(Tail(s))

\* s without its first n characters
drop(s, n) == SubSeq(s, n + 1, Len(s))

\* .replace(/\n\s*\n/g, '\n'): \s* is greedy, so the match ends at the last
\* newline of the white-space run that follows the first one.
RECURSIVE replaceBlankLines(_)
replaceBlankLines(s) ==
  IF s = <<>> THEN <<>>
  ELSE IF Head(s) = NL
       THEN LET run == spaceRun(Tail(s))
                ends == {k \in 1..run : Tail(s)[k] = NL}
            IN IF ends = {} THEN <<NL>> \o replaceBlankLines(Tail(s))
               ELSE <<NL>> \o replaceBlankLines(
                      drop(Tail(s), CHOOSE k \in ends : \A j \in ends : k >= j))
       ELSE <<Head(s)>> \o replaceBlankLines(Tail(s))

\* .replace(/\s+/g, ' ')
RECURSIVE replaceWhitespace(_)
replaceWhitespace(s) ==
  IF s = <<>> THEN <<>>
  ELSE IF IsSpace(Head(s)) THEN <<" ">> \o replaceWhitespace(drop(s, spaceRun(s)))
  ELSE <<Head(s)>> \o replaceWhitespace(Tail(s))

\* .replace(/\[.*?\]/g, ''): from a "[" to the first "]" after it on the same line
RECURSIVE removeBracketed(_)
removeBracketed(s) ==
  IF s = <<>> THEN <<>>
  ELSE IF Head(s) = "["
       THEN LET closes == {k \in 2..Len(s) :
                             s[k] = "]" /\ \A j \in 2..(k - 1) : s[j] \notin {"]", NL}}
            IN IF closes = {} THEN <<"[">> \o removeBracketed(Tail(s))
               ELSE removeBracketed(drop(s, CHOOSE k \in closes : TRUE))
       ELSE <<Head(s)>> \o removeBracketed(Tail(s))

\* .replace(/\(\s*\)/g, '') and .replace(/\{\s*\}/g, '')
RECURSIVE removeEmptyPair(_, _, _)
removeEmptyPair(s, open, close) ==
  IF s = <<>> THEN <<>>
  ELSE IF Head(s) = open
          /\ Len(s) >= 2 + spaceRun(Tail(s))
          /\ s[2 + spaceRun(Tail(s))] = close
       THEN removeEmptyPair(drop(s, 2 + spaceRun(Tail(s))), open, close)
       ELSE <<Head(s)>> \o removeEmptyPair(Tail(s), open, close)

\* The length of the longest prefix of s made of the character c.
RECURSIVE charRun(_, _)
charRun(s, c) ==
  IF s = <<>> \/ Head(s) # c THEN 0 ELSE 1 + charRun(Tail(s), c)

\* .replace(/c{min,}/g, rep) for one character c: every run of at least min
\* of them becomes rep.
RECURSIVE replaceRuns(_, _, _, _)
replaceRuns(s, c, min, rep) ==
  IF s = <<>> THEN <<>>
  ELSE IF Head(s) = c
       THEN LET run == charRun(s, c)
            IN (IF run >= min THEN rep ELSE SubSeq(s, 1, run))
               \o replaceRuns(drop(s, run), c, min, rep)
       ELSE <<Head(s)>> \o replaceRuns(Tail(s), c, min, rep)

\* [a-zA-Z0-9#]
IsEntityChar(c) ==
  \/ c \in DOMAIN UpperToLower
  \/ c \in {UpperToLower[u] : u \in DOMAIN UpperToLower}
  \/ c \in {"0", "1", "2", "3", "4", "5", "6", "7", "8", "9", "#"}

RECURSIVE entityRun(_)
entityRun(s) ==
  IF s = <<>> \/ ~IsEntityChar(Head(s)) THEN 0 ELSE 1 + entityRun(Tail(s))

Nbsp == <<"&", "n", "b", "s", "p", ";">>

\* .replace(/&nbsp;/g, ' ')
RECURSIVE replaceNbsp(_)
replaceNbsp(s) ==
  IF s = <<>> THEN <<>>
  ELSE IF Len(s) >= Len(Nbsp) /\ SubSeq(s, 1, Len(Nbsp)) = Nbsp
       THEN <<" ">> \o replaceNbsp(drop(s, Len(Nbsp)))
       ELSE <<Head(s)>> \o replaceNbsp(Tail(s))

\* .replace(/&[a-zA-Z0-9#]+;/g, '')
RECURSIVE removeEntities(_)
removeEntities(s) ==
  IF s = <<>> THEN <<>>
  ELSE IF Head(s) = "&"
          /\ entityRun(Tail(s)) >= 1
          /\ Len(s) >= 2 + entityRun(Tail(s))
          /\ s[2 + entityRun(Tail(s))] = ";"
       THEN removeEntities(drop(s, 2 + entityRun(Tail(s))))
       ELSE <<Head(s)>> \o removeEntities(Tail(s))

\* The replacements of lines 21-40, in the code's order, and the trim.
cleanText(s) ==
  LET s1 == replaceBlankLines(s)
      s2 == replaceWhitespace(s1)
      s3 == removeBracketed(s2)
      s4 == removeEmptyPair(s3, "(", ")")
      s5 == removeEmptyPair(s4, "{", "}")
      s6 == replaceRuns(s5, "|", 1, <<"|">>)
      s7 == replaceRuns(s6, "-", 1, <<"-">>)
      s8 == replaceRuns(s7, "=", 1, <<"=">>)
      s9 == replaceNbsp(s8)
      s10 == removeEntities(s9)
      s11 == replaceRuns(s10, ".", 3, <<".", ".", ".">>)
      s12 == replaceRuns(s11, "-", 3, <<"-", "-", "-">>)
  IN trim(s12)

(***************************************************************************)
(* TextOptimizer.extractProductSections                                    *)
(***************************************************************************)
\* productKeywords of extractProductSections (lines 53-62)
productKeywords ==
  << <<"p", "r", "o", "d", "u", "c", "t">>,
     <<"b", "o", "t", "t", "l", "e">>,
     <<"j", "a", "r">>,
     <<"c", "a", "p">>,
     <<"c", "o", "n", "t", "a", "i", "n", "e", "r">>,
     <<"p", "a", "c", "k", "a", "g", "i", "n", "g">>,
     <<"m", "l">>,
     <<"o", "z">>,
     <<"l", "i", "t", "e", "r">>,
     <<"g", "a", "l", "l", "o", "n">>,
     <<"g", "r", "a", "m">>,
     <<"k", "g">>,
     <<"p", "o", "u", "n", "d">>,
     <<"m", "a", "t", "e", "r", "i", "a", "l">>,
     <<"p", "l", "a", "s", "t", "i", "c">>,
     <<"g", "l", "a", "s", "s">>,
     <<"a", "l", "u", "m", "i", "n", "u", "m">>,
     <<"s", "t", "e", "e", "l">>,
     <<"p", "r", "i", "c", "e">>,
     <<"c", "o", "s", "t">>,
     <<"$">>,
     <<"€">>,
     <<"£">>,
     <<"U", "S", "D">>,
     <<"E", "U", "R">>,
     <<"s", "p", "e", "c", "i", "f", "i", "c", "a", "t", "i", "o", "n">>,
     <<"d", "i", "m", "e", "n", "s", "i", "o", "n">>,
     <<"s", "i", "z", "e">>,
     <<"h", "e", "i", "g", "h", "t">>,
     <<"w", "i", "d", "t", "h">>,
     <<"m", "i", "n", "i", "m", "u", "m", " ", "o", "r", "d", "e", "r">>,
     <<"M", "O", "Q">>,
     <<"q", "u", "a", "n", "t", "i", "t", "y">>,
     <<"w", "h", "o", "l", "e", "s", "a", "l", "e">>,
     <<"c", "e", "r", "t", "i", "f", "i", "c", "a", "t", "i", "o", "n">>,
     <<"F", "D", "A">>,
     <<"I", "S", "O">>,
     <<"c", "o", "m", "p", "l", "i", "a", "n", "t">>,
     <<"c", "o", "l", "o", "r">>,
     <<"t", "r", "a", "n", "s", "p", "a", "r", "e", "n", "t">>,
     <<"o", "p", "a", "q", "u", "e">>,
     <<"c", "l", "e", "a", "r">>,
     <<"a", "m", "b", "e", "r">> >>

\* productKeywords.some(keyword => line.includes(keyword.toLowerCase()))
hasProductKeyword(line) ==
  \E k \in 1..Len(productKeywords) :
    includes(toLowerCase(line), toLowerCase(productKeywords[k]))

\* The lines around a keyword line that are taken with it (lines 77-78).
ContextLines == 1

\* productLines.includes(x)
inList(ls, x) == \E k \in 1..Len(ls) : ls[k] = x

\* the inner loop over j = from..to: push lines[j] unless an equal line is there
RECURSIVE pushContext(_, _, _, _)
pushContext(productLines, lines, from, to) ==
  IF from > to THEN productLines
  ELSE pushContext(IF inList(productLines, lines[from]) THEN productLines
                   ELSE Append(productLines, lines[from]),
                   lines, from + 1, to)

\* the outer loop over the lines; k is i + 1
RECURSIVE sectionsLoop(_, _, _)
sectionsLoop(productLines, lines, k) ==
  IF k > Len(lines) THEN productLines
  ELSE IF hasProductKeyword(lines[k])
       THEN LET contextStart == IF k - ContextLines < 1 THEN 1 ELSE k - ContextLines
                contextEnd == IF k + ContextLines > Len(lines) THEN Len(lines)
                              ELSE k + ContextLines
            IN sectionsLoop(pushContext(productLines, lines, contextStart, contextEnd),
                            lines, k + 1)
       ELSE sectionsLoop(productLines, lines, k + 1)

extractProductSections_dropIrrelevant(t) ==
  join(sectionsLoop(<<>>, split(t, NL), 1), NL)

extractProductSections(t) ==
  LET productLines == sectionsLoop(<<>>, split(t, NL), 1)
  IN IF Len(productLines) > 0 THEN join(productLines, NL) ELSE t

\* TextOptimizer.optimizeText(extractedText, fileName)
optimizeText(rawText) == extractProductSections(cleanText(rawText))

(***************************************************************************)
(* TextOptimizer.prioritizeChunks                                          *)
(***************************************************************************)
\* productKeywords of prioritizeChunks (lines 131-134)
priorityKeywords ==
  << <<"p", "r", "o", "d", "u", "c", "t">>,
     <<"b", "o", "t", "t", "l", "e">>,
     <<"j", "a", "r">>,
     <<"c", "a", "p">>,
     <<"c", "o", "n", "t", "a", "i", "n", "e", "r">>,
     <<"p", "a", "c", "k", "a", "g", "i", "n", "g">>,
     <<"s", "p", "e", "c", "i", "f", "i", "c", "a", "t", "i", "o", "n">>,
     <<"p", "r", "i", "c", "e">>,
     <<"c", "o", "s", "t">>,
     <<"m", "a", "t", "e", "r", "i", "a", "l">>,
     <<"d", "i", "m", "e", "n", "s", "i", "o", "n">> >>

\* str.split(keyword).length - 1: the occurrences of keyword, taken from the left
\* without overlap
RECURSIVE occurrences(_, _)
occurrences(str, keyword) ==
  IF Len(str) < Len(keyword) THEN 0
  ELSE IF SubSeq(str, 1, Len(keyword)) = keyword
       THEN 1 + occurrences(drop(str, Len(keyword)), keyword)
       ELSE occurrences(Tail(str), keyword)

RECURSIVE sumOccurrences(_, _)
sumOccurrences(str, k) ==
  IF k > Len(priorityKeywords) THEN 0
  ELSE occurrences(str, priorityKeywords[k]) + sumOccurrences(str, k + 1)

\* keywordCount of a chunk (lines 137-140)
relevance(chunk) == sumOccurrences(toLowerCase(chunk), 1)

\* .sort((a, b) => b.relevance - a.relevance): a stable sort, so the chunk at
\* position p of the result is the one with p - 1 chunks before it in the order
\* "higher relevance, or equal relevance and earlier".
sortsBefore(rel, j, k) ==
  \/ rel[j] > rel[k]
  \/ rel[j] = rel[k] /\ j < k

\* chunks.map(chunk => ({ chunk, relevance: keywordCount })): the relevances
RECURSIVE relevances(_)
relevances(cs) ==
  IF cs = <<>> THEN <<>> ELSE <<relevance(Head(cs))>> \o relevances(Tail(cs))

prioritizeChunks_tiesReversed(cs) ==
  LET rel == relevances(cs) IN
  [p \in 1..Len(cs) |->
     cs[CHOOSE k \in 1..Len(cs) :
          Cardinality({j \in 1..Len(cs) :
                         rel[j] > rel[k] \/ (rel[j] = rel[k] /\ j > k)}) = p - 1]]

prioritizeChunks(cs) ==
  LET rel == relevances(cs) IN
  [p \in 1..Len(cs) |->
     cs[CHOOSE k \in 1..Len(cs) :
          Cardinality({j \in 1..Len(cs) : sortsBefore(rel, j, k)}) = p - 1]]

(***************************************************************************)
(* TextOptimizer.chunkText(text, provider, maxChunkSize) with a positive   *)
(* maxChunkSize: maxTokens is that budget.                                 *)
(***************************************************************************)
chunkStep_glueOversized(st, line, maxTokens) ==
  LET lineTokens == estimateTokens(line) IN
  IF st.currentTokens + lineTokens > maxTokens /\ lineTokens <= maxTokens
     /\ Len(st.currentChunk) > 0
  THEN [chunks |-> Append(st.chunks, trim(st.currentChunk)),
        currentChunk |-> line,
        currentTokens |-> lineTokens]
  ELSE [chunks |-> st.chunks,
        currentChunk |-> st.currentChunk
                          \o (IF Len(st.currentChunk) > 0 THEN <<NL>> ELSE <<>>)
                          \o line,
        currentTokens |-> st.currentTokens + lineTokens]

\* One iteration of the loop over the lines; st = [chunks, currentChunk, currentTokens].
chunkStep(st, line, maxTokens) ==
  LET lineTokens == estimateTokens(line) IN
  IF st.currentTokens + lineTokens > maxTokens /\ Len(st.currentChunk) > 0
  THEN [chunks |-> Append(st.chunks, trim(st.currentChunk)),
        currentChunk |-> line,
        currentTokens |-> lineTokens]
  ELSE [chunks |-> st.chunks,
        currentChunk |-> st.currentChunk
                          \o (IF Len(st.currentChunk) > 0 THEN <<NL>> ELSE <<>>)
                          \o line,
        currentTokens |-> st.currentTokens + lineTokens]

RECURSIVE chunkLoop(_, _, _)
chunkLoop(st, lines, maxTokens) ==
  IF lines = <<>> THEN st
  ELSE chunkLoop(chunkStep(st, Head(lines), maxTokens), Tail(lines), maxTokens)

chunkText_noEarlyReturn(t, maxTokens) ==
  LET st == chunkLoop([chunks |-> <<>>, currentChunk |-> <<>>, currentTokens |-> 0],
                      split(t, NL), maxTokens)
  IN IF Len(st.currentChunk) > 0
     THEN Append(st.chunks, trim(st.currentChunk))
     ELSE st.chunks

chunkText(t, maxTokens) ==
  IF estimateTokens(t) <= maxTokens THEN <<t>>
  ELSE LET st == chunkLoop([chunks |-> <<>>, currentChunk |-> <<>>, currentTokens |-> 0],
                           split(t, NL), maxTokens)
       IN IF Len(st.currentChunk) > 0
          THEN Append(st.chunks, trim(st.currentChunk))
          ELSE st.chunks

(***************************************************************************)
(* JavaScript values of a product's fields: a string (its characters),     *)
(* undefined (the property is absent), null, a number, a boolean, an       *)
(* object (its properties) or an array (its elements).                     *)
(***************************************************************************)
Str(s) == [type |-> "string", val |-> s]
Undefined == [type |-> "undefined", val |-> <<>>]
Null == [type |-> "null", val |-> <<>>]
Number(n) == [type |-> "number", val |-> n]
Bool(b) == [type |-> "boolean", val |-> b]
JSObject(props) == [type |-> "object", val |-> props]
JSArray(elems) == [type |-> "array", val |-> elems]
Num == Number(7)

\* A product entry of the parsed response with the properties name and category
\* only: every other property the code reads is absent.
Entry(n, c) ==
  [name |-> n, category |-> c, specifications |-> Undefined, pricing |-> Undefined,
   features |-> Undefined, certifications |-> Undefined, sustainability |-> Undefined,
   categoryFilters |-> Undefined, commonFilters |-> Undefined,
   customization |-> Undefined, broaderCategory |-> Undefined, ecoScore |-> Undefined,
   ecoScoreDetails |-> Undefined]

\* o.f of an object o: undefined when o has no property f
get(o, f) == IF o.type = "object" /\ f \in DOMAIN o.val THEN o.val[f] ELSE Undefined

\* v is truthy: not undefined, null, "", 0 or false
truthy(v) ==
  CASE v.type = "string" -> v.val # <<>>
    [] v.type = "number" -> v.val # 0
    [] v.type = "boolean" -> v.val
    [] v.type \in {"object", "array"} -> TRUE
    [] OTHER -> FALSE

\* `${v}` of a template literal, for v a string or undefined
template(v) ==
  IF v.type = "undefined" THEN <<"u", "n", "d", "e", "f", "i", "n", "e", "d">> ELSE v.val

\* v?.toLowerCase()
optLower(v) == IF v.type = "undefined" THEN Undefined ELSE Str(toLowerCase(v.val))

(***************************************************************************)
(* AIService.removeDuplicateProducts                                       *)
(***************************************************************************)
\* `${product.name?.toLowerCase()}-${product.category?.toLowerCase()}`
dedupeKey(product) ==
  template(optLower(product.name)) \o <<"-">> \o template(optLower(product.category))

\* the loop over products; seen is the Map's key set
RECURSIVE dedupeLoop(_, _, _)
dedupeLoop(ps, seen, uniq) ==
  IF ps = <<>> THEN uniq
  ELSE LET key == dedupeKey(Head(ps)) IN
       IF key \notin seen
       THEN dedupeLoop(Tail(ps), seen \cup {key}, Append(uniq, Head(ps)))
       ELSE dedupeLoop(Tail(ps), seen, uniq)

removeDuplicateProducts(ps) == dedupeLoop(ps, {}, <<>>)

(***************************************************************************)
(* The text of an LLM completion.  It is a sequence of tokens: a run of    *)
(* plain text without braces, a stray "{" or "}", or the text of one JSON  *)
(* object (balanced braces) with the value JSON.parse gives for it.  A     *)
(* message (processing note, error message) is a sequence of fragments.    *)
(***************************************************************************)
Text(cs) == [t |-> "text", chars |-> cs, body |-> <<>>]
Obj(b) == [t |-> "obj", chars |-> <<>>, body |-> b]

OpenBrace == Text(<<"{">>)
CloseBrace == Text(<<"}">>)

\* The value of a JSON object text: hasProductsArray tells whether its products
\* property is an array, products is the array's entries; summary may be absent.
NoSummary == [present |-> FALSE, totalProducts |-> 0, categories |-> <<>>,
              processingNotes |-> Undefined]
Summary(n, cats, notes) ==
  [present |-> TRUE, totalProducts |-> n, categories |-> cats, processingNotes |-> notes]
Body(ps, sm) == [hasProductsArray |-> TRUE, products |-> ps, summary |-> sm]
EmptyObject == [hasProductsArray |-> FALSE, products |-> <<>>, summary |-> NoSummary]

\* The characters of a JSON value that stand in the object's text.
valueChars(v) ==
  IF v.type = "string" THEN v.val
  ELSE IF v.type = "number" THEN <<ToString(v.val)>>
  ELSE <<>>

RECURSIVE entriesChars(_)
entriesChars(es) ==
  IF es = <<>> THEN <<>>
  ELSE <<"{">> \o valueChars(Head(es).name) \o <<",">> \o valueChars(Head(es).category)
       \o <<",">> \o valueChars(get(Head(es).specifications, "material"))
       \o <<"}">> \o entriesChars(Tail(es))

tokenChars(tok) ==
  IF tok.t = "text" THEN tok.chars
  ELSE <<"{">>
       \o (IF ~tok.body.hasProductsArray THEN <<>>
           ELSE <<"[">> \o entriesChars(tok.body.products) \o <<"]">>)
       \o valueChars(tok.body.summary.processingNotes)
       \o <<"}">>

\* The characters of the completion, tokens set apart by a blank.
RECURSIVE responseChars(_)
responseChars(resp) ==
  IF resp = <<>> THEN <<>>
  ELSE IF Len(resp) = 1 THEN tokenChars(resp[1])
  ELSE tokenChars(resp[1]) \o <<" ">> \o responseChars(Tail(resp))

RefusalPhrases ==
  { <<"s", "o", "r", "r", "y">>,
    <<"u", "n", "a", "b", "l", "e", " ", "t", "o", " ", "e", "x", "t", "r", "a", "c", "t">>,
    <<"n", "o", " ", "a", "c", "t", "u", "a", "l", " ", "p", "r", "o", "d", "u", "c", "t",
      " ", "i", "n", "f", "o", "r", "m", "a", "t", "i", "o", "n">> }

\* aiResponse.toLowerCase().includes("sorry") || ... (lines 606-608)
indicatesNoProducts(resp) ==
  \E phrase \in RefusalPhrases : includes(toLowerCase(responseChars(resp)), phrase)

\* aiResponse.match(/\{[\s\S]*\}/): the span from the first "{" to the last "}",
\* as the positions of the tokens that hold them; <<>> when there is no match.
hasOpen(tok) == tok.t = "obj" \/ tok = OpenBrace
hasClose(tok) == tok.t = "obj" \/ tok = CloseBrace

jsonMatch(resp) ==
  LET opens == {k \in 1..Len(resp) : hasOpen(resp[k])}
      closes == {k \in 1..Len(resp) : hasClose(resp[k])}
  IN IF opens = {} \/ closes = {} THEN <<>>
     ELSE LET first == CHOOSE k \in opens : \A j \in opens : k <= j
              last == CHOOSE k \in closes : \A j \in closes : k >= j
          IN IF last > first \/ (last = first /\ resp[first].t = "obj")
             THEN SubSeq(resp, first, last)
             ELSE <<>>

\* JSON.parse(jsonMatch[0]): one object text parses to its value, "{ }" to the
\* empty object, anything else is a SyntaxError.
JSONparse(span) ==
  IF Len(span) = 1 /\ span[1].t = "obj" THEN [ok |-> TRUE, value |-> span[1].body]
  ELSE IF span = <<OpenBrace, CloseBrace>> THEN [ok |-> TRUE, value |-> EmptyObject]
  ELSE [ok |-> FALSE, value |-> EmptyObject]

Return(ps, sm) == [kind |-> "return", products |-> ps, summary |-> sm, message |-> <<>>]
Throw(msg) == [kind |-> "throw", products |-> <<>>, summary |-> NoSummary, message |-> msg]

\* !v || typeof v !== 'string'
invalidString_typeOnly(v) == v.type # "string"

invalidString(v) == v.type # "string" \/ v.val = <<>>

\* The error the forEach callback throws for the entry at index k (1-based), or <<>>.
productError(product, k) ==
  IF invalidString(product.name)
  THEN <<"Product ", ToString(k), ": missing or invalid name">>
  ELSE IF invalidString(product.category)
  THEN <<"Product ", ToString(k), ": missing or invalid category">>
  ELSE IF truthy(product.specifications)
          /\ product.specifications.type \notin {"object", "array"}
  THEN <<"Cannot create property 'minimumOrderQuantity' on ",
         product.specifications.type>>
  ELSE <<>>

\* forEach stops at the first entry that throws.
firstProductError(ps) ==
  LET bad == {k \in 1..Len(ps) : productError(ps[k], k) # <<>>}
  IN IF bad = {} THEN <<>>
     ELSE productError(ps[CHOOSE k \in bad : \A j \in bad : k <= j],
                       CHOOSE k \in bad : \A j \in bad : k <= j)

(***************************************************************************)
(* The defaults parseAndValidateResponse gives a validated product (lines  *)
(* 654-729).  A product is a record of the JavaScript values of its        *)
(* properties; an object is a function from its property names.  A string  *)
(* the code looks into is its characters, any other string one fragment.   *)
(***************************************************************************)
EmptyObj == [x \in {} |-> Undefined]

\* if (!o.f) { o.f = v }
setDefault(o, f, v) == IF f \in DOMAIN o /\ truthy(o[f]) THEN o ELSE (f :> v) @@ o

NotSpecified == <<"N", "o", "t", " ", "s", "p", "e", "c", "i", "f", "i", "e", "d">>

DefaultPricing == JSObject([basePrice |-> Number(0), currency |-> Str(<<"USD">>)])

DefaultSustainability ==
  JSObject([recycledContent |-> Number(0), biodegradable |-> Bool(FALSE),
            compostable |-> Bool(FALSE), refillable |-> Bool(FALSE),
            sustainableSourcing |-> Bool(FALSE), carbonNeutral |-> Bool(FALSE)])

DefaultCustomization ==
  JSObject([printingAvailable |-> Bool(FALSE), labelingAvailable |-> Bool(FALSE),
            colorOptions |-> JSArray(<<>>), printingMethods |-> JSArray(<<>>),
            customSizes |-> Bool(FALSE)])

DefaultMinimumOrderQuantity == 1000
DefaultAvailableQuantity == 5000

\* lines 694-705
specificationDefaults(o) ==
  setDefault(
    setDefault(
      setDefault(
        setDefault(o, "minimumOrderQuantity", Number(DefaultMinimumOrderQuantity)),
        "availableQuantity", Number(DefaultAvailableQuantity)),
      "material", Str(NotSpecified)),
    "weight", JSObject([value |-> Number(0), unit |-> Str(<<"g">>)]))

categoryMapping ==
  (<<"B", "o", "t", "t", "l", "e">> :> "Base Packaging")
  @@ (<<"J", "a", "r">> :> "Base Packaging")
  @@ (<<"T", "u", "b", "e">> :> "Base Packaging")
  @@ (<<"C", "a", "p">> :> "Closure")
  @@ (<<"C", "l", "o", "s", "u", "r", "e">> :> "Closure")
  @@ (<<"O", "t", "h", "e", "r", " ", "C", "l", "o", "s", "u", "r", "e">> :> "Closure")
  @@ (<<"P", "u", "m", "p">> :> "Closure")
  @@ (<<"S", "p", "r", "a", "y">> :> "Closure")
  @@ (<<"D", "r", "o", "p", "p", "e", "r">> :> "Closure")
  @@ (<<"D", "i", "s", "p", "e", "n", "s", "e", "r">> :> "Closure")
  @@ (<<"M", "a", "k", "e", "u", "p">> :> "Beauty")
  @@ (<<"C", "o", "s", "m", "e", "t", "i", "c", "s">> :> "Beauty")
  @@ (<<"N", "a", "i", "l", " ", "C", "a", "r", "e">> :> "Beauty")
  @@ (<<"S", "k", "i", "n", " ", "C", "a", "r", "e">> :> "Personal Care")
  @@ (<<"H", "a", "i", "r", " ", "C", "a", "r", "e">> :> "Personal Care")
  @@ (<<"F", "a", "c", "e", " ", "C", "r", "e", "a", "m">> :> "Personal Care")
  @@ (<<"F", "r", "a", "g", "r", "a", "n", "c", "e">> :> "Personal Care")
  @@ (<<"L", "a", "u", "n", "d", "r", "y", " ", "D", "e", "t", "e", "r", "g", "e", "n", "t">> :> "Household")
  @@ (<<"S", "u", "r", "f", "a", "c", "e", " ", "C", "l", "e", "a", "n", "e", "r", "s">> :> "Household")
  @@ (<<"D", "i", "s", "h", " ", "S", "o", "a", "p">> :> "Household")

\* categoryMapping[category] || 'Base Packaging'
mapToBroaderCategory(category) ==
  IF category.type = "string" /\ category.val \in DOMAIN categoryMapping
  THEN Str(<<categoryMapping[category.val]>>)
  ELSE Str(<<"Base Packaging">>)

\* product.specifications?.material?.toLowerCase() || ''
materialLower(product) ==
  LET material == get(product.specifications, "material") IN
  IF material.type = "string" THEN toLowerCase(material.val) ELSE <<>>

\* material.includes('mono') || material.includes('pp') || material.includes('hdpe')
recycleReady(material) ==
  \/ includes(material, <<"m", "o", "n", "o">>)
  \/ includes(material, <<"p", "p">>)
  \/ includes(material, <<"h", "d", "p", "e">>)

\* x > 0, x >= n of a value that is a number (any other value of the samples is
\* undefined, which compares false)
numberAtLeast(v, n) == v.type = "number" /\ v.val >= n

calculateEcoScoreDetails(product) ==
  LET material == materialLower(product)
      sustainability == product.sustainability
      recycledContent == get(sustainability, "recycledContent")
      sourcing == truthy(get(sustainability, "sustainableSourcing"))
  IN [recyclability |->
        IF recycleReady(material) THEN 100
        ELSE IF includes(material, <<"p", "e", "t">>) \/ includes(material, <<"p", "l", "a", "s", "t", "i", "c">>) THEN 80
        ELSE IF includes(material, <<"g", "l", "a", "s", "s">>) THEN 60
        ELSE 40,
      carbonFootprint |->
        IF truthy(get(sustainability, "carbonNeutral")) THEN 100
        ELSE IF sourcing THEN 80
        ELSE 60,
      sustainableMaterials |->
        IF numberAtLeast(recycledContent, 100) THEN 100
        ELSE IF numberAtLeast(recycledContent, 50) THEN 80
        ELSE IF sourcing THEN 60
        ELSE 40,
      localSourcing |-> IF sourcing THEN 80 ELSE 60]

\* Math.round(x / 4) of an integer x >= 0
roundQuarter(x) == (x + 2) \div 4

calculateEcoScore_recyclabilityOnly(product) ==
  calculateEcoScoreDetails(product).recyclability

calculateEcoScore(product) ==
  LET average(details) ==
        roundQuarter(details.recyclability + details.carbonFootprint
                     + details.sustainableMaterials + details.localSourcing)
  IN average(calculateEcoScoreDetails(product))

ecoScoreDetailsValue(product) ==
  LET value(details) ==
        JSObject([recyclability |-> Number(details.recyclability),
                  carbonFootprint |-> Number(details.carbonFootprint),
                  sustainableMaterials |-> Number(details.sustainableMaterials),
                  localSourcing |-> Number(details.localSourcing)])
  IN value(calculateEcoScoreDetails(product))

\* product.category?.toLowerCase() || '' (the category is a validated string)
categoryLower(product) == toLowerCase(product.category.val)

strings(fragments) == JSArray([k \in 1..Len(fragments) |-> Str(<<fragments[k]>>)])

generateCategoryFilters(product) ==
  LET category == categoryLower(product)
      name == toLowerCase(product.name.val)
      filters ==
        IF includes(category, <<"t", "u", "b", "e">>)
        THEN [TubeShape |-> strings(<<"Round">>),
              TubeType |-> IF recycleReady(materialLower(product))
                           THEN strings(<<"Monomaterial">>) ELSE strings(<<"Laminated">>)]
        ELSE IF includes(category, <<"b", "o", "t", "t", "l", "e">>)
        THEN [BottleShape |-> strings(<<"Round">>), BottleType |-> strings(<<"Standard">>)]
        ELSE IF includes(category, <<"j", "a", "r">>)
        THEN [JarShape |-> strings(<<"Round">>), JarType |-> strings(<<"Standard">>)]
        ELSE IF includes(category, <<"c", "a", "p">>)
        THEN [CapType |-> strings(<<"Screw Cap">>), CapSize |-> strings(<<"24mm">>)]
        ELSE IF includes(category, <<"c", "l", "o", "s", "u", "r", "e">>)
        THEN [OtherClosureType |->
                IF includes(name, <<"p", "u", "m", "p">>) THEN strings(<<"Pump">>)
                ELSE IF includes(name, <<"s", "p", "r", "a", "y">>) THEN strings(<<"Spray">>)
                ELSE strings(<<"Dispenser">>)]
        ELSE EmptyObj
  IN JSArray(<<JSObject(filters)>>)

max(a, b) == IF a >= b THEN a ELSE b

generateCommonFilters(product) ==
  LET sustainability == product.sustainability
      category == categoryLower(product)
      material == get(product.specifications, "material")
      capacity == get(product.specifications, "capacity")
      moqValue == get(product.specifications, "minimumOrderQuantity")
      moq == IF truthy(moqValue) THEN moqValue.val ELSE DefaultMinimumOrderQuantity
      sustainabilityFilters ==
        (IF numberAtLeast(get(sustainability, "recycledContent"), 1)
         THEN <<"Recycled Content">> ELSE <<>>)
        \o (IF truthy(get(sustainability, "biodegradable")) THEN <<"Biodegradable">> ELSE <<>>)
        \o (IF truthy(get(sustainability, "compostable")) THEN <<"Compostable">> ELSE <<>>)
        \o (IF truthy(get(sustainability, "carbonNeutral")) THEN <<"Carbon Neutral">> ELSE <<>>)
        \o (IF recycleReady(materialLower(product)) THEN <<"Recycle Ready">> ELSE <<>>)
      size ==
        IF numberAtLeast(get(capacity, "value"), 1)
        THEN [Size |-> JSArray(<<
                Str(<<"Unit: ">> \o (IF truthy(get(capacity, "unit"))
                                     THEN get(capacity, "unit").val ELSE <<"ml">>)),
                Str(<<"Min: ", ToString(max(1, get(capacity, "value").val - 10))>>),
                Str(<<"Max: ", ToString(get(capacity, "value").val + 10)>>) >>)]
        ELSE EmptyObj
      endUse ==
        IF includes(category, <<"t", "u", "b", "e">>) \/ includes(category, <<"b", "o", "t", "t", "l", "e">>)
        THEN <<"Hand Cream", "Body Wash">>
        ELSE IF includes(category, <<"p", "u", "m", "p">>) \/ includes(category, <<"c", "l", "o", "s", "u", "r", "e">>)
        THEN <<"Body Lotion", "Shampoo">>
        ELSE <<"General Use">>
      filters ==
        size @@
        [Sustainability |-> strings(sustainabilityFilters),
         Material |-> JSArray(<<IF truthy(material) THEN material ELSE Str(NotSpecified)>>),
         MinimumOrder |-> JSArray(<<Str(<<"Min: ", ToString(max(500, moq - 500))>>),
                                    Str(<<"Max: ", ToString(moq + 10000)>>)>>),
         Location |-> strings(<<"USA">>),
         Color |-> strings(<<"Clear">>),
         EndUse |-> strings(endUse)]
  IN JSArray(<<JSObject(filters)>>)

\* !v || v.length === 0
emptyList(v) == ~truthy(v) \/ (v.type = "array" /\ v.val = <<>>)

withDefaults_nullFields(product) == product

\* The body of the forEach callback after the checks of name and category, for a
\* product whose specifications is absent, null or an object (lines 654-729).
withDefaults(product) ==
  LET missing(p) ==
        [p EXCEPT
           !.specifications = IF truthy(@) THEN @ ELSE JSObject(EmptyObj),
           !.pricing = IF truthy(@) THEN @ ELSE DefaultPricing,
           !.features = IF truthy(@) THEN @ ELSE JSArray(<<>>),
           !.certifications = IF truthy(@) THEN @ ELSE JSArray(<<>>),
           !.sustainability = IF truthy(@) THEN @ ELSE DefaultSustainability,
           !.categoryFilters = IF truthy(@) THEN @ ELSE JSArray(<<>>),
           !.commonFilters = IF truthy(@) THEN @ ELSE JSArray(<<>>),
           !.customization = IF truthy(@) THEN @ ELSE DefaultCustomization]
      specified(p) == [p EXCEPT !.specifications = JSObject(specificationDefaults(@.val))]
      broader(p) ==
        [p EXCEPT !.broaderCategory =
                    IF truthy(@) THEN @ ELSE mapToBroaderCategory(p.category)]
      scored(p) ==
        [p EXCEPT !.ecoScore = IF truthy(@) THEN @ ELSE Number(calculateEcoScore(p))]
      detailed(p) ==
        [p EXCEPT !.ecoScoreDetails = IF truthy(@) THEN @ ELSE ecoScoreDetailsValue(p)]
      categoryFiltered(p) ==
        [p EXCEPT !.categoryFilters =
                    IF emptyList(@) THEN generateCategoryFilters(p) ELSE @]
      commonFiltered(p) ==
        [p EXCEPT !.commonFilters =
                    IF emptyList(@) THEN generateCommonFilters(p) ELSE @]
  IN commonFiltered(categoryFiltered(detailed(scored(broader(specified(
       missing(product)))))))

RECURSIVE allWithDefaults(_)
allWithDefaults(ps) ==
  IF ps = <<>> THEN <<>> ELSE <<withDefaults(Head(ps))>> \o allWithDefaults(Tail(ps))

NoProductInformation == <<"No product information found in the provided text.">>
NoValidJson == <<"AI response did not contain valid JSON format.">>
FailedToParse == "Failed to parse AI response: "

\* AIService.parseAndValidateResponse(aiResponse); ai is Str(tokens), or Undefined
\* when the completion carries no content (aiResponse.length then throws).
parseAndValidateResponse_noRefusalCheck(ai) ==
  LET resp == ai.val IN
  IF ai.type # "string"
  THEN Throw(<<FailedToParse, "Cannot read properties of undefined (reading 'length')">>)
  ELSE IF jsonMatch(resp) = <<>>
  THEN Return(<<>>, Summary(0, <<>>, Str(NoValidJson)))
  ELSE LET parsedResponse == JSONparse(jsonMatch(resp)) IN
       IF ~parsedResponse.ok
       THEN Throw(<<FailedToParse, "Unexpected token in JSON">>)
       ELSE IF ~parsedResponse.value.hasProductsArray
       THEN Throw(<<FailedToParse, "Invalid response structure: missing products array">>)
       ELSE IF firstProductError(parsedResponse.value.products) # <<>>
       THEN Throw(<<FailedToParse>> \o firstProductError(parsedResponse.value.products))
       ELSE Return(allWithDefaults(parsedResponse.value.products),
                   parsedResponse.value.summary)

parseAndValidateResponse(ai) ==
  LET resp == ai.val IN
  IF ai.type # "string"
  THEN Throw(<<FailedToParse, "Cannot read properties of undefined (reading 'length')">>)
  ELSE IF indicatesNoProducts(resp)
  THEN Return(<<>>, Summary(0, <<>>, Str(NoProductInformation)))
  ELSE IF jsonMatch(resp) = <<>>
  THEN Return(<<>>, Summary(0, <<>>, Str(NoValidJson)))
  ELSE LET parsedResponse == JSONparse(jsonMatch(resp)) IN
       IF ~parsedResponse.ok
       THEN Throw(<<FailedToParse, "Unexpected token in JSON">>)
       ELSE IF ~parsedResponse.value.hasProductsArray
       THEN Throw(<<FailedToParse, "Invalid response structure: missing products array">>)
       ELSE IF firstProductError(parsedResponse.value.products) # <<>>
       THEN Throw(<<FailedToParse>> \o firstProductError(parsedResponse.value.products))
       ELSE Return(allWithDefaults(parsedResponse.value.products),
                   parsedResponse.value.summary)

(***************************************************************************)
(* The extraction job: AIService.processWithAI, processSingleChunk and     *)
(* processMultipleChunks.  The request to the provider is the one await    *)
(* point: it is issued in one step and answered in a later one.            *)
(***************************************************************************)
\* this.maxTokens[provider] || 7000
maxTokensOf(provider) ==
  IF provider = "groq" THEN GroqBudget
  ELSE IF provider = "openai" THEN OpenAIBudget
  ELSE GroqBudget


\* What a request to the provider can come back with: a rejection (error.message,
\* and error.response.data.error.message when the provider answered), a completion
\* with content, or a completion without content.
Rejected(msg, apiMsg) == [kind |-> "error", message |-> msg, apiMessage |-> apiMsg, content |-> Undefined]
Completed(content) == [kind |-> "completion", message |-> <<>>, apiMessage |-> <<>>, content |-> content]

\* notes.join(sep) of messages
RECURSIVE joinMessages(_, _)
joinMessages(ms, sep) ==
  IF ms = <<>> THEN <<>>
  ELSE IF Len(ms) = 1 THEN ms[1]
  ELSE ms[1] \o <<sep>> \o joinMessages(Tail(ms), sep)

\* [...new Set(uniqueProducts.map(p => p.category))]
RECURSIVE categoriesOf(_, _)
categoriesOf(ps, seen) ==
  IF ps = <<>> THEN <<>>
  ELSE IF Head(ps).category \in seen THEN categoriesOf(Tail(ps), seen)
  ELSE <<Head(ps).category>> \o categoriesOf(Tail(ps), seen \cup {Head(ps).category})

\* processSingleChunk: what it returns or throws for the answer to its request
\* (lines 270-278)
singleChunkResult(answer) ==
  IF answer.kind = "error"
  THEN Throw(<<"AI processing failed: ">>
             \o (IF answer.apiMessage # <<>> THEN answer.apiMessage ELSE answer.message))
  ELSE LET rethrown(r) ==
             IF r.kind = "throw" THEN Throw(<<"AI processing failed: ">> \o r.message)
             ELSE r
       IN rethrown(parseAndValidateResponse(answer.content))

\* `Chunk ${i + 1}: Processing failed - ${error.message}`
chunkFailedNote(k, msg) == <<"Chunk ", ToString(k), ": ", "Processing failed - ">> \o msg

chunkAnswered_silentFailure(st, k, answer) ==
  IF answer.kind = "error"
  THEN st
  ELSE LET chunkResult == parseAndValidateResponse(answer.content) IN
       IF chunkResult.kind = "throw"
       THEN st
       ELSE [allProducts |-> st.allProducts \o chunkResult.products,
             processingNotes |->
               IF truthy(chunkResult.summary.processingNotes)
               THEN Append(st.processingNotes,
                           <<"Chunk ", ToString(k), ": ">>
                           \o chunkResult.summary.processingNotes.val)
               ELSE st.processingNotes]

chunkAnswered_dropProducts(st, k, answer) ==
  IF answer.kind = "error"
  THEN [allProducts |-> st.allProducts,
        processingNotes |-> Append(st.processingNotes, chunkFailedNote(k, answer.message))]
  ELSE LET chunkResult == parseAndValidateResponse(answer.content) IN
       IF chunkResult.kind = "throw"
       THEN [allProducts |-> <<>>,
             processingNotes |->
               Append(st.processingNotes, chunkFailedNote(k, chunkResult.message))]
       ELSE [allProducts |-> st.allProducts \o chunkResult.products,
             processingNotes |->
               IF truthy(chunkResult.summary.processingNotes)
               THEN Append(st.processingNotes,
                           <<"Chunk ", ToString(k), ": ">>
                           \o chunkResult.summary.processingNotes.val)
               ELSE st.processingNotes]

\* The body of the loop of processMultipleChunks after the request for the chunk
\* at position k (i + 1) is answered (lines 322-337); st = [allProducts,
\* processingNotes].
chunkAnswered(st, k, answer) ==
  IF answer.kind = "error"
  THEN [allProducts |-> st.allProducts,
        processingNotes |-> Append(st.processingNotes, chunkFailedNote(k, answer.message))]
  ELSE LET parsedChunk(chunkResult) ==
             IF chunkResult.kind = "throw"
             THEN [allProducts |-> st.allProducts,
                   processingNotes |->
                     Append(st.processingNotes, chunkFailedNote(k, chunkResult.message))]
             ELSE [allProducts |-> st.allProducts \o chunkResult.products,
                   processingNotes |->
                     IF truthy(chunkResult.summary.processingNotes)
                     THEN Append(st.processingNotes,
                                 <<"Chunk ", ToString(k), ": ">>
                                 \o chunkResult.summary.processingNotes.val)
                     ELSE st.processingNotes]
       IN parsedChunk(parseAndValidateResponse(answer.content))

\* What processMultipleChunks returns after the loop (lines 341-350).
multiChunkResult(cs, ps, notes) ==
  LET uniqueProducts == removeDuplicateProducts(ps) IN
  Return(uniqueProducts,
         Summary(Len(uniqueProducts), categoriesOf(uniqueProducts, {}),
                 Str(<<"Processed ", ToString(Len(cs)), " chunks. ">>
                     \o joinMessages(notes, "; "))))

afterPost_noAwait(k) == [pc |-> "multi_loop", i |-> k + 1]

afterPost_skipNext(k) == [pc |-> "multi_await", i |-> k + 1]

\* `await axios.post(...)` in the loop (line 297): the loop stands still, at the
\* same index, until the request is answered.
afterPost(k) == [pc |-> "multi_await", i |-> k]

(***************************************************************************)
(* The format extractors of the extraction route: extractFromExcel,        *)
(* extractFromPDF and extractFromPowerPoint.  A buffer is its byte length  *)
(* and what the library that reads it makes of it: an error (its message), *)
(* or the workbook's sheets (rows of cells), the PDF's text, or the        *)
(* archive's entries.  An entry of the archive is a slide part, a notes    *)
(* part or another part, with the texts of its <a:t> elements and of the   *)
(* first <a:t> of each of its <a:r> runs.                                  *)
(***************************************************************************)
Corrupt(n, msg) == [length |-> n, ok |-> FALSE, message |-> msg, content |-> <<>>]
Readable(n, c) == [length |-> n, ok |-> TRUE, message |-> <<>>, content |-> c]

ZipEntry(kind, ts, rs) == [kind |-> kind, texts |-> ts, runs |-> rs]

ExtReturn(t) == [kind |-> "return", text |-> t, message |-> <<>>]
ExtThrow(msg) == [kind |-> "throw", text |-> <<>>, message |-> msg]

\* row.join(' | ') + '\n' of the rows that have cells
RECURSIVE rowsText(_)
rowsText(rows) ==
  IF rows = <<>> THEN <<>>
  ELSE (IF Len(Head(rows)) > 0 THEN join(Head(rows), " | ") \o <<NL>> ELSE <<>>)
       \o rowsText(Tail(rows))

RECURSIVE sheetsText(_)
sheetsText(sheets) ==
  IF sheets = <<>> THEN <<>> ELSE rowsText(Head(sheets)) \o sheetsText(Tail(sheets))

extractFromExcel(buffer) ==
  IF ~buffer.ok THEN ExtThrow(<<"Excel extraction failed: ">> \o buffer.message)
  ELSE ExtReturn(sheetsText(buffer.content))

extractFromPDF(buffer) ==
  IF ~buffer.ok THEN ExtThrow(<<"PDF extraction failed: ">> \o buffer.message)
  ELSE ExtReturn(buffer.content)

SlideBreak == <<NL, "-", "-", "-", " ", "S", "L", "I", "D", "E", " ", "B", "R", "E", "A", "K", " ", "-", "-", "-", NL, NL>>
NotesHeader == <<NL, "-", "-", "-", " ", "N", "O", "T", "E", "S", " ", "-", "-", "-", NL>>

\* text + '\n' for every text that is not empty after trim()
RECURSIVE textLines(_)
textLines(ts) ==
  IF ts = <<>> THEN <<>>
  ELSE (IF trim(Head(ts)) # <<>> THEN trim(Head(ts)) \o <<NL>> ELSE <<>>)
       \o textLines(Tail(ts))

\* what one entry of the archive adds to extractedText (lines 398-447)
entryText(zipEntry) ==
  IF zipEntry.kind = "slide"
  THEN textLines(zipEntry.texts) \o textLines(zipEntry.runs) \o SlideBreak
  ELSE IF zipEntry.kind = "notes" /\ zipEntry.texts # <<>>
  THEN NotesHeader \o textLines(zipEntry.texts)
  ELSE <<>>

RECURSIVE entriesText(_)
entriesText(entries) ==
  IF entries = <<>> THEN <<>> ELSE entryText(Head(entries)) \o entriesText(Tail(entries))

\* s.replace(/pat/g, rep) for a literal pat
RECURSIVE replaceAll(_, _, _)
replaceAll(s, pat, r) ==
  IF Len(s) < Len(pat) THEN s
  ELSE IF SubSeq(s, 1, Len(pat)) = pat THEN r \o replaceAll(drop(s, Len(pat)), pat, r)
  ELSE <<Head(s)>> \o replaceAll(Tail(s), pat, r)

\* the clean-up of lines 450-457
cleanSlideText(t) ==
  trim(replaceAll(replaceAll(replaceAll(replaceAll(replaceAll(replaceBlankLines(t),
    <<"&", "l", "t", ";">>, <<"<">>), <<"&", "g", "t", ";">>, <<">">>), <<"&", "a", "m", "p", ";">>, <<"&">>), <<"&", "q", "u", "o", "t", ";">>, <<"\"">>), <<"&", "#", "3", "9", ";">>, <<"'">>))

\* the text returned when no text was extracted (lines 465-474)
processedPlaceholder(n) ==
  <<"PowerPoint file processed: ", ToString(n), " bytes",
    "This PowerPoint file appears to contain presentation content.",
    "Consider providing the information in a more text-friendly format if extraction results are incomplete.">>

\* the text returned from the catch (lines 481-496)
fallbackPlaceholder(n, msg) ==
  <<"PowerPoint file upload detected: ", ToString(n), " bytes",
    "This file appears to be a PowerPoint presentation that may contain:",
    "Error during text extraction: ">> \o msg
  \o <<"The AI will still attempt to process any available content, but manual review may be required.">>

extractFromPowerPoint_rethrow(buffer) ==
  IF ~buffer.ok THEN ExtThrow(<<"PowerPoint extraction failed: ">> \o buffer.message)
  ELSE LET slideText == cleanSlideText(entriesText(buffer.content)) IN
       IF Len(slideText) > 0 THEN ExtReturn(slideText)
       ELSE ExtReturn(processedPlaceholder(buffer.length))

extractFromPowerPoint(buffer) ==
  IF ~buffer.ok THEN ExtReturn(fallbackPlaceholder(buffer.length, buffer.message))
  ELSE LET slideText == cleanSlideText(entriesText(buffer.content)) IN
       IF Len(slideText) > 0 THEN ExtReturn(slideText)
       ELSE ExtReturn(processedPlaceholder(buffer.length))

\* the dispatch on the file's type (lines 58-63 and 307-312)
extractText(format, buffer) ==
  IF format = "excel" THEN extractFromExcel(buffer)
  ELSE IF format = "pdf" THEN extractFromPDF(buffer)
  ELSE extractFromPowerPoint(buffer)

(***************************************************************************)
(* Inputs of the chunker: texts of 1..MaxLines lines joined by newlines.   *)
(***************************************************************************)
LineSamples ==
  { <<>>,
    <<"a">>,
    <<" ", "a">>,
    <<"a", "a", "a", "a">>,
    <<"a", "a", "a", "a", "a">>,
    <<" ", "a", "a", "a", "a">> }

RECURSIVE SeqsUpTo(_, _)
SeqsUpTo(S, n) ==
  IF n = 0 THEN {<<>>}
  ELSE LET shorter == SeqsUpTo(S, n - 1)
       IN shorter \cup {Append(q, x) : q \in {r \in shorter : Len(r) = n - 1}, x \in S}

ChunkerTexts == {join(ls, NL) : ls \in SeqsUpTo(LineSamples, MaxLines) \ {<<>>}}

(***************************************************************************)
(* Inputs of the deduplicator: lists of up to MaxProducts candidates whose *)
(* names and categories differ in case and in where a hyphen stands.       *)
(***************************************************************************)
NameSamples == { <<"a">>, <<"A">>, <<"a", "-">> }
CategorySamples == { <<"b">>, <<"B">>, <<"-", "b">> }

ProductSamples ==
  {[name |-> Str(n), category |-> Str(c)] : n \in NameSamples, c \in CategorySamples}

(***************************************************************************)
(* Inputs of the parser: completions of up to MaxTokens tokens.            *)
(***************************************************************************)
ValueSamples == {Str(<<"a">>), Str(<<"S", "o", "r", "r", "y">>), Str(<<>>), Undefined, Num}

\* An entry that carries a material and sustainability flags.
EntryWithMaterial ==
  [Entry(Str(<<"a">>), Str(<<"b">>)) EXCEPT
     !.specifications = JSObject([material |-> Str(<<"H", "D", "P", "E">>)]),
     !.sustainability = JSObject([carbonNeutral |-> Bool(TRUE),
                                  recycledContent |-> Number(50)])]

\* Entries of other materials and flags.
EntryOfGlass ==
  [Entry(Str(<<"a">>), Str(<<"J", "a", "r">>)) EXCEPT
     !.specifications = JSObject([material |-> Str(<<"G", "l", "a", "s", "s">>)]),
     !.sustainability = JSObject([sustainableSourcing |-> Bool(TRUE)])]

EntryOfRecycledPet ==
  [Entry(Str(<<"a">>), Str(<<"b">>)) EXCEPT
     !.specifications = JSObject([material |-> Str(<<"r", "P", "E", "T">>)]),
     !.sustainability = JSObject([recycledContent |-> Number(100)])]

\* An entry whose other properties are there and hold null, 0 and [].
EntryWithNulls ==
  [Entry(Str(<<"a">>), Str(<<"C", "a", "p">>)) EXCEPT
     !.specifications = Null, !.ecoScore = Number(0), !.categoryFilters = JSArray(<<>>)]

\* An entry whose specifications is a string.
EntryWithTextSpecifications ==
  [Entry(Str(<<"a">>), Str(<<"b">>)) EXCEPT !.specifications = Str(<<"x">>)]

EntrySamples ==
  {Entry(n, Str(<<"b">>)) : n \in ValueSamples}
  \cup {Entry(Str(<<"a">>), c) : c \in ValueSamples}
  \cup {EntryWithMaterial, EntryWithNulls, EntryWithTextSpecifications,
        EntryOfGlass, EntryOfRecycledPet}

GoodEntry == Entry(Str(<<"a">>), Str(<<"b">>))

BodySamples ==
  {EmptyObject, Body(<<>>, NoSummary), Body(<<GoodEntry>>, Summary(1, <<>>, Str(<<"o", "k">>)))}
  \cup {Body(<<e>>, NoSummary) : e \in EntrySamples}
  \cup {Body(<<GoodEntry, e>>, NoSummary) : e \in EntrySamples}

TokenSamples ==
  {Text(<<"o", "k">>), Text(<<"S", "o", "r", "r", "y">>), OpenBrace, CloseBrace}
  \cup {Obj(b) : b \in BodySamples}

(***************************************************************************)
(* Inputs of the job: texts handed to processWithAI, chunk lists handed to *)
(* processMultipleChunks, and the answers of the provider.                 *)
(***************************************************************************)
Cap == <<"c", "a", "p">>

RawTextSamples ==
  { Cap,
    Cap \o <<NL>> \o Cap,
    <<"a", NL, NL, "b">>,
    <<"[", "x", "]">>,
    <<"a", "a", "a", "a", NL, "a", "a", "a", "a", NL>> \o Cap,
    <<"a", "a", "a", "a", "a", "a", "a", "a", "a", "a", "a", "a", "a", "a", "a", "a", NL>> \o Cap }

ChunkSamples == { <<"a", "a">>, Cap }

\* Lists of 2..MaxChunks chunks, at most one of which holds a keyword.
ChunkListSamples ==
  {cs \in SeqsUpTo(ChunkSamples, MaxChunks) :
     Len(cs) >= 2 /\ Cardinality({k \in 1..Len(cs) : cs[k] = Cap}) <= 1}

ProductA == Entry(Str(<<"a">>), Str(<<"b">>))
ProductA2 == Entry(Str(<<"A">>), Str(<<"B">>))
ProductC == Entry(Str(<<"c">>), Str(<<"b">>))
NoName == Entry(Undefined, Str(<<"b">>))

AnswerSamples ==
  { Rejected(<<"Network Error">>, <<>>),
    Rejected(<<"Request failed with status code 429">>, <<"Rate limit reached">>),
    Completed(Str(<<Text(<<"S", "o", "r", "r", "y">>)>>)),
    Completed(Str(<<Obj(Body(<<ProductA>>, Summary(1, <<Str(<<"b">>)>>, Str(<<"o", "k">>))))>>)),
    Completed(Str(<<Obj(Body(<<ProductA2, ProductC>>, NoSummary))>>)),
    Completed(Str(<<Obj(Body(<<ProductA, ProductA>>, NoSummary))>>)),
    Completed(Str(<<Obj(Body(<<ProductC, NoName>>, NoSummary))>>)) }

NoResult == [kind |-> "none", products |-> <<>>, summary |-> NoSummary, message |-> <<>>]

JobIdle ==
  /\ entry = "none" /\ currentProvider = "null" /\ extractedText = <<>>
  /\ optimizedText = <<>> /\ jobChunks = <<>> /\ pc = "idle" /\ prioritizedChunks = <<>>
  /\ i = 0 /\ allProducts = <<>> /\ processingNotes = <<>> /\ inFlight = {}
  /\ callLog = <<>> /\ attempts = <<>> /\ result = NoResult

ParseIdle == aiResponse = <<>> /\ parseResult = <<>> /\ ppc = "idle"

ChunkIdle == text = <<>> /\ budget = 1 /\ chunks = <<>> /\ cpc = "idle"

DedupeIdle == products = <<>> /\ unique = <<>> /\ unique2 = <<>> /\ dpc = "idle"

OptimizeIdle == optInput = <<>> /\ optOnce = <<>> /\ optTwice = <<>> /\ opc = "idle"

ExtractIdle ==
  /\ fileFormat = "none" /\ fileBuffer = Readable(0, <<>>) /\ extracted = ExtReturn(<<>>)
  /\ epc = "idle"

SectionsIdle == secText = <<>> /\ sections = <<>> /\ spc = "idle"

PrioritizeIdle == prioChunks = <<>> /\ prioritized = <<>> /\ prpc = "idle"

SimilarityIdle ==
  simProduct1 = <<>> /\ simProduct2 = <<>> /\ simScore = <<>> /\ simpc = "idle"

AnalyzeIdle ==
  anProduct = <<>> /\ anExisting = <<>> /\ anResult = <<>> /\ anpc = "idle"

ConcurrentIdle == requests = <<>> /\ frames = <<>>

UtilIdle ==
  /\ OptimizeIdle /\ ExtractIdle /\ SectionsIdle /\ PrioritizeIdle /\ SimilarityIdle
  /\ AnalyzeIdle /\ ConcurrentIdle

ChunkInit ==
  /\ text \in ChunkerTexts
  /\ budget \in 1..MaxBudget
  /\ chunks = <<>>
  /\ cpc = "call"
  /\ DedupeIdle
  /\ ParseIdle
  /\ JobIdle
  /\ UtilIdle

ChunkText ==
  /\ cpc = "call"
  /\ chunks' = chunkText(text, budget)
  /\ cpc' = "returned"
  /\ UNCHANGED <<text, budget, dedupeVars, parseVars, jobVars, utilVars>>

ChunkNext == ChunkText

SpecChunk == ChunkInit /\ [][ChunkNext]_vars

DedupeInit ==
  /\ products \in SeqsUpTo(ProductSamples, MaxProducts)
  /\ unique = <<>>
  /\ unique2 = <<>>
  /\ dpc = "call"
  /\ ChunkIdle
  /\ ParseIdle
  /\ JobIdle
  /\ UtilIdle

Dedupe ==
  /\ dpc = "call"
  /\ unique' = removeDuplicateProducts(products)
  /\ dpc' = "deduped"
  /\ UNCHANGED <<products, unique2, chunkVars, parseVars, jobVars, utilVars>>

DedupeAgain ==
  /\ dpc = "deduped"
  /\ unique2' = removeDuplicateProducts(unique)
  /\ dpc' = "again"
  /\ UNCHANGED <<products, unique, chunkVars, parseVars, jobVars, utilVars>>

DedupeNext == Dedupe \/ DedupeAgain

SpecDedupe == DedupeInit /\ [][DedupeNext]_vars

ParseInit ==
  /\ aiResponse \in SeqsUpTo(TokenSamples, MaxTokens)
  /\ parseResult = <<>>
  /\ ppc = "call"
  /\ ChunkIdle
  /\ DedupeIdle
  /\ JobIdle
  /\ UtilIdle

Parse ==
  /\ ppc = "call"
  /\ parseResult' = parseAndValidateResponse(Str(aiResponse))
  /\ ppc' = "returned"
  /\ UNCHANGED <<aiResponse, chunkVars, dedupeVars, jobVars, utilVars>>

ParseNext == Parse

SpecParse == ParseInit /\ [][ParseNext]_vars

(***************************************************************************)
(* The job's state machine.  processWithAI is the exported entry; the      *)
(* method processMultipleChunks is also started directly on a chunk list.  *)
(***************************************************************************)
Init ==
  /\ \/ /\ entry = "processWithAI"
        /\ currentProvider \in {"groq", "openai", "null"}
        /\ extractedText \in RawTextSamples
        /\ jobChunks = <<>>
        /\ pc = "received"
     \/ /\ entry = "processMultipleChunks"
        /\ currentProvider = "groq"
        /\ extractedText = <<>>
        /\ jobChunks \in ChunkListSamples
        /\ pc = "multi_start"
  /\ optimizedText = <<>>
  /\ prioritizedChunks = <<>>
  /\ i = 0
  /\ allProducts = <<>>
  /\ processingNotes = <<>>
  /\ inFlight = {}
  /\ callLog = <<>>
  /\ attempts = <<>>
  /\ result = NoResult
  /\ ChunkIdle
  /\ DedupeIdle
  /\ ParseIdle
  /\ UtilIdle

others == <<chunkVars, dedupeVars, parseVars, utilVars, entry, currentProvider, extractedText>>

\* processWithAI, lines 216-218
NoProvider ==
  /\ pc = "received"
  /\ currentProvider = "null"
  /\ result' = Throw(<<"No AI provider configured. Please set OPENAI_API_KEY or GROQ_API_KEY in environment variables.">>)
  /\ pc' = "done"
  /\ UNCHANGED <<others, optimizedText, jobChunks, prioritizedChunks, i, allProducts,
                 processingNotes, inFlight, callLog, attempts>>

\* processWithAI, line 223
OptimizeText ==
  /\ pc = "received"
  /\ currentProvider # "null"
  /\ optimizedText' = optimizeText(extractedText)
  /\ pc' = "optimized"
  /\ UNCHANGED <<others, jobChunks, prioritizedChunks, i, allProducts,
                 processingNotes, inFlight, callLog, attempts, result>>

\* processWithAI, lines 226-234
ChunkTextAndDispatch ==
  /\ pc = "optimized"
  /\ jobChunks' = chunkText(optimizedText, maxTokensOf(currentProvider))
  /\ pc' = IF Len(jobChunks') = 1 THEN "single_start" ELSE "multi_start"
  /\ UNCHANGED <<others, optimizedText, prioritizedChunks, i, allProducts,
                 processingNotes, inFlight, callLog, attempts, result>>

\* processSingleChunk, lines 238-268: the request is sent
PostSingle ==
  /\ pc = "single_start"
  /\ inFlight' = inFlight \cup {1}
  /\ callLog' = Append(callLog, jobChunks[1])
  /\ pc' = "single_await"
  /\ UNCHANGED <<others, optimizedText, jobChunks, prioritizedChunks, i, allProducts,
                 processingNotes, attempts, result>>

\* processSingleChunk, lines 270-278: the request is answered
AnswerSingle ==
  /\ pc = "single_await"
  /\ \E answer \in AnswerSamples :
       /\ attempts' = Append(attempts, [position |-> 1, answer |-> answer])
       /\ result' = singleChunkResult(answer)
  /\ inFlight' = inFlight \ {1}
  /\ pc' = "done"
  /\ UNCHANGED <<others, optimizedText, jobChunks, prioritizedChunks, i, allProducts,
                 processingNotes, callLog>>

\* processMultipleChunks, lines 282-288
StartMulti ==
  /\ pc = "multi_start"
  /\ prioritizedChunks' = prioritizeChunks(jobChunks)
  /\ allProducts' = <<>>
  /\ processingNotes' = <<>>
  /\ i' = 0
  /\ pc' = "multi_loop"
  /\ UNCHANGED <<others, optimizedText, jobChunks, inFlight, callLog, attempts, result>>

\* processMultipleChunks, lines 290-320: the loop's test, and the request for
\* prioritizedChunks[i] is sent
PostChunk ==
  /\ pc = "multi_loop"
  /\ i < Len(prioritizedChunks)
  /\ inFlight' = inFlight \cup {i + 1}
  /\ callLog' = Append(callLog, prioritizedChunks[i + 1])
  /\ pc' = afterPost(i).pc
  /\ i' = afterPost(i).i
  /\ UNCHANGED <<others, optimizedText, jobChunks, prioritizedChunks, allProducts,
                 processingNotes, attempts, result>>

\* processMultipleChunks, lines 322-338: a request is answered, the rest of the
\* loop body runs, and i++
AnswerChunk ==
  /\ \E k \in inFlight, answer \in AnswerSamples :
       LET assigned(st) ==
             /\ allProducts' = st.allProducts
             /\ processingNotes' = st.processingNotes
       IN /\ assigned(chunkAnswered([allProducts |-> allProducts,
                                     processingNotes |-> processingNotes], k, answer))
          /\ attempts' = Append(attempts, [position |-> k, answer |-> answer])
          /\ inFlight' = inFlight \ {k}
  /\ pc \in {"multi_await", "multi_loop"}
  /\ pc' = "multi_loop"
  /\ i' = IF pc = "multi_await" THEN i + 1 ELSE i
  /\ UNCHANGED <<others, optimizedText, jobChunks, prioritizedChunks, callLog, result>>

\* processMultipleChunks, lines 340-350: the loop is left
FinishMulti ==
  /\ pc = "multi_loop"
  /\ i >= Len(prioritizedChunks)
  /\ result' = multiChunkResult(jobChunks, allProducts, processingNotes)
  /\ pc' = "done"
  /\ UNCHANGED <<others, optimizedText, jobChunks, prioritizedChunks, i, allProducts,
                 processingNotes, inFlight, callLog, attempts>>

Next ==
  \/ NoProvider
  \/ OptimizeText
  \/ ChunkTextAndDispatch
  \/ PostSingle
  \/ AnswerSingle
  \/ StartMulti
  \/ PostChunk
  \/ AnswerChunk
  \/ FinishMulti

Spec == Init /\ [][Next]_vars

\* processMultipleChunks called with a list of chunks, when every request is
\* answered in the end (it resolves or rejects) and the event loop goes on
\* running the steps of the function.
MultiInit == Init /\ entry = "processMultipleChunks"

MultiNext == StartMulti \/ PostChunk \/ AnswerChunk \/ FinishMulti

SpecMultiLive == MultiInit /\ [][MultiNext]_vars /\ WF_vars(MultiNext)

(***************************************************************************)
(* TextOptimizer.optimizeText applied to a text of up to MaxChars          *)
(* characters, and then to its own result.                                 *)
(***************************************************************************)
coreVars == <<chunkVars, dedupeVars, parseVars, jobVars>>

CoreIdle == ChunkIdle /\ DedupeIdle /\ ParseIdle /\ JobIdle

OptimizeChars == {"a", " ", NL, "[", "]", "(", ")", "$"}

OptimizeInit ==
  /\ optInput \in SeqsUpTo(OptimizeChars, MaxChars)
  /\ optOnce = <<>>
  /\ optTwice = <<>>
  /\ opc = "call"
  /\ CoreIdle
  /\ AnalyzeIdle
  /\ ConcurrentIdle
  /\ ExtractIdle
  /\ SectionsIdle
  /\ PrioritizeIdle
  /\ SimilarityIdle

Optimize ==
  /\ opc = "call"
  /\ optOnce' = optimizeText(optInput)
  /\ opc' = "once"
  /\ UNCHANGED <<optInput, optTwice, coreVars, extractVars, sectionVars, prioVars, simVars, analyzeVars, concVars>>

OptimizeAgain ==
  /\ opc = "once"
  /\ optTwice' = optimizeText(optOnce)
  /\ opc' = "twice"
  /\ UNCHANGED <<optInput, optOnce, coreVars, extractVars, sectionVars, prioVars, simVars, analyzeVars, concVars>>

OptimizeNext == Optimize \/ OptimizeAgain

SpecOptimize == OptimizeInit /\ [][OptimizeNext]_vars

(***************************************************************************)
(* A format extractor applied to a buffer of up to MaxBytes bytes that the *)
(* library cannot read, or can: a workbook, a PDF text, or an archive of   *)
(* up to MaxEntries entries.                                               *)
(***************************************************************************)
LibraryErrors == { <<"Invalid PDF structure">>, <<"Unsupported file">> }

\* Workbooks: sheets of rows of cells.
RowAB == << <<"a">>, <<"b">> >>
WorkbookSamples ==
  { <<>>, << <<>> >>, << << <<>>, RowAB >> >>, << << RowAB >>, << RowAB, RowAB >> >> }

PdfTextSamples == { <<>>, <<" ">>, <<"a", NL, "b">> }

ZipEntrySamples ==
  { ZipEntry("slide", <<>>, <<>>),
    ZipEntry("slide", << <<"a">> >>, << <<"a">> >>),
    ZipEntry("slide", << <<" ">> >>, << <<" ">> >>),
    ZipEntry("notes", <<>>, <<>>),
    ZipEntry("notes", << <<"&", "l", "t", ";">> >>, <<>>),
    ZipEntry("other", << <<"a">> >>, <<>>) }

BufferSamples(format) ==
  {Corrupt(n, msg) : n \in 0..MaxBytes, msg \in LibraryErrors}
  \cup {Readable(n, c) : n \in 0..MaxBytes,
                         c \in IF format = "excel" THEN WorkbookSamples
                               ELSE IF format = "pdf" THEN PdfTextSamples
                               ELSE SeqsUpTo(ZipEntrySamples, MaxEntries)}

ExtractInit ==
  /\ fileFormat \in {"excel", "pdf", "powerpoint"}
  /\ fileBuffer \in BufferSamples(fileFormat)
  /\ extracted = ExtReturn(<<>>)
  /\ epc = "call"
  /\ CoreIdle
  /\ AnalyzeIdle
  /\ ConcurrentIdle
  /\ OptimizeIdle
  /\ SectionsIdle
  /\ PrioritizeIdle
  /\ SimilarityIdle

Extract ==
  /\ epc = "call"
  /\ extracted' = extractText(fileFormat, fileBuffer)
  /\ epc' = "returned"
  /\ UNCHANGED <<fileFormat, fileBuffer, coreVars, optVars, sectionVars, prioVars, simVars, analyzeVars, concVars>>

ExtractNext == Extract

SpecExtract == ExtractInit /\ [][ExtractNext]_vars

(***************************************************************************)
(* TextOptimizer.extractProductSections applied to a text of up to         *)
(* MaxSectionLines lines: lines with the keyword "$", lines without a      *)
(* keyword, and empty lines.                                               *)
(***************************************************************************)
SectionLineSamples == { <<"$">>, <<"a">>, <<"b">>, <<"c">>, <<>> }

SectionsInit ==
  /\ secText \in {join(ls, NL) : ls \in SeqsUpTo(SectionLineSamples, MaxSectionLines) \ {<<>>}}
  /\ sections = <<>>
  /\ spc = "call"
  /\ CoreIdle
  /\ AnalyzeIdle
  /\ ConcurrentIdle
  /\ OptimizeIdle
  /\ ExtractIdle
  /\ PrioritizeIdle
  /\ SimilarityIdle

ExtractSections ==
  /\ spc = "call"
  /\ sections' = extractProductSections(secText)
  /\ spc' = "returned"
  /\ UNCHANGED <<secText, coreVars, optVars, extractVars, prioVars, simVars, analyzeVars, concVars>>

SectionsNext == ExtractSections

SpecSections == SectionsInit /\ [][SectionsNext]_vars

(***************************************************************************)
(* TextOptimizer.prioritizeChunks applied to a list of up to               *)
(* MaxPrioritized chunks that hold no, one or two keywords, in lower or    *)
(* upper case.                                                             *)
(***************************************************************************)
PrioChunkSamples ==
  { <<>>, <<"a", "a">>, Cap, <<"J", "a", "r">>, Cap \o Cap }

PrioritizeInit ==
  /\ prioChunks \in SeqsUpTo(PrioChunkSamples, MaxPrioritized)
  /\ prioritized = <<>>
  /\ prpc = "call"
  /\ CoreIdle
  /\ AnalyzeIdle
  /\ ConcurrentIdle
  /\ OptimizeIdle
  /\ ExtractIdle
  /\ SectionsIdle
  /\ SimilarityIdle

Prioritize ==
  /\ prpc = "call"
  /\ prioritized' = prioritizeChunks(prioChunks)
  /\ prpc' = "returned"
  /\ UNCHANGED <<prioChunks, coreVars, optVars, extractVars, sectionVars, simVars, analyzeVars, concVars>>

PrioritizeNext == Prioritize

SpecPrioritize == PrioritizeInit /\ [][PrioritizeNext]_vars

(***************************************************************************)
(* The similarity scorers: AIService.calculateSimilarity of the AI service *)
(* and calculateSimilarity of the extraction route.  A score is a JS       *)
(* number; the model keeps it as an exact fraction num/den in lowest       *)
(* terms, den > 0.                                                         *)
(***************************************************************************)
RECURSIVE gcd(_, _)
gcd(a, b) == IF b = 0 THEN a ELSE gcd(b, a % b)

Ratio(n, d) ==
  LET g == gcd(IF n < 0 THEN -n ELSE n, d)
  IN [type |-> "number", num |-> n \div g, den |-> d \div g]

plus(r, q) == Ratio(r.num * q.den + q.num * r.den, r.den * q.den)
times(r, q) == Ratio(r.num * q.num, r.den * q.den)
\* r / q for q > 0
dividedBy(r, q) == Ratio(r.num * q.den, r.den * q.num)

min3(a, b, c) == IF a <= b /\ a <= c THEN a ELSE IF b <= c THEN b ELSE c

\* matrix[row][col] of levenshteinDistance: the distance of the first `row`
\* characters of str2 and the first `col` characters of str1.
RECURSIVE matrix(_, _, _, _)
matrix(str1, str2, row, col) ==
  IF row = 0 THEN col
  ELSE IF col = 0 THEN row
  ELSE IF str2[row] = str1[col] THEN matrix(str1, str2, row - 1, col - 1)
  ELSE min3(matrix(str1, str2, row - 1, col - 1) + 1,
            matrix(str1, str2, row, col - 1) + 1,
            matrix(str1, str2, row - 1, col) + 1)

levenshteinDistance(str1, str2) == matrix(str1, str2, Len(str2), Len(str1))

stringSimilarity(str1, str2) ==
  LET longer == IF Len(str1) > Len(str2) THEN str1 ELSE str2
      shorter == IF Len(str1) > Len(str2) THEN str2 ELSE str1
  IN IF Len(longer) = 0 THEN Ratio(1, 1)
     ELSE Ratio(Len(longer) - levenshteinDistance(longer, shorter), Len(longer))

\* product1.f && product2.f
both(v1, v2) == truthy(v1) /\ truthy(v2)

\* v.toLowerCase() raises a TypeError: v is truthy and not a string
notLowerable(v) == truthy(v) /\ v.type # "string"

materialOf(product) == get(product.specifications, "material")

\* product.specifications.capacity.value || 0, for a number or no value
capacityValue(product) ==
  LET value == get(get(product.specifications, "capacity"), "value")
  IN IF truthy(value) THEN value.val ELSE 0

\* The TypeError of `x.toLowerCase is not a function`.
NotAFunction == [type |-> "throw", error |-> "TypeError"]

toLowerCaseFails(product1, product2) ==
  \/ both(product1.name, product2.name)
       /\ (notLowerable(product1.name) \/ notLowerable(product2.name))
  \/ both(materialOf(product1), materialOf(product2))
       /\ (notLowerable(materialOf(product1)) \/ notLowerable(materialOf(product2)))

nameScore(product1, product2) ==
  stringSimilarity(toLowerCase(product1.name.val), toLowerCase(product2.name.val))

sameMaterial(product1, product2) ==
  /\ both(materialOf(product1), materialOf(product2))
  /\ toLowerCase(materialOf(product1).val) = toLowerCase(materialOf(product2).val)

Zero == Ratio(0, 1)

\* The value of `score` at the return of AIService.calculateSimilarity.
weightedScore(product1, product2) ==
  LET capacity1 == capacityValue(product1)
      capacity2 == capacityValue(product2)
      byName == IF both(product1.name, product2.name)
                THEN times(nameScore(product1, product2), Ratio(4, 10)) ELSE Zero
      byCategory == IF product1.category = product2.category THEN Ratio(3, 10) ELSE Zero
      byMaterial == IF sameMaterial(product1, product2) THEN Ratio(2, 10) ELSE Zero
      byCapacity ==
        IF /\ both(get(product1.specifications, "capacity"),
                   get(product2.specifications, "capacity"))
           /\ capacity1 > 0 /\ capacity2 > 0
        THEN LET diff == max(capacity1, capacity2) - min3(capacity1, capacity2, capacity2)
             IN times(Ratio(max(capacity1, capacity2) - diff, max(capacity1, capacity2)),
                      Ratio(1, 10))
        ELSE Zero
  IN plus(plus(plus(byName, byCategory), byMaterial), byCapacity)

\* The value of `factors` at the return of AIService.calculateSimilarity.
factorsTotal(product1, product2) ==
  plus(IF both(product1.name, product2.name) THEN Ratio(4, 10) ELSE Zero, Ratio(6, 10))

calculateSimilarity(product1, product2) ==
  IF toLowerCaseFails(product1, product2) THEN NotAFunction
  ELSE dividedBy(weightedScore(product1, product2), factorsTotal(product1, product2))

\* calculateSimilarity of the extraction route
routeCalculateSimilarity(product1, product2) ==
  LET named == both(product1.name, product2.name)
      byName == IF named THEN nameScore(product1, product2) ELSE Zero
      byCategory == IF product1.category = product2.category THEN Ratio(5, 10) ELSE Zero
      byMaterial == IF sameMaterial(product1, product2) THEN Ratio(3, 10) ELSE Zero
      factors == IF named THEN 3 ELSE 2
  IN IF toLowerCaseFails(product1, product2) THEN NotAFunction
     ELSE dividedBy(plus(plus(byName, byCategory), byMaterial), Ratio(factors, 1))

SimilarityNames == {Undefined, Str(<<"a", "b">>), Str(<<"A", "b">>), Str(<<"b">>), Num}
SimilarityCategories == {Str(<<"x">>), Str(<<"y">>)}
SimilarityMaterials == {Undefined, Str(<<"m">>), Str(<<"M">>)}
SimilarityCapacities ==
  {Undefined} \cup {JSObject([value |-> Number(v)]) : v \in 0..MaxCapacity}

SimilarityProducts ==
  { [Entry(n, c) EXCEPT !.specifications = JSObject([material |-> m, capacity |-> k])] :
      n \in SimilarityNames, c \in SimilarityCategories,
      m \in SimilarityMaterials, k \in SimilarityCapacities }

SimilarityInit ==
  /\ simProduct1 \in SimilarityProducts
  /\ simProduct2 \in SimilarityProducts
  /\ simScore = <<>>
  /\ simpc = "call"
  /\ CoreIdle
  /\ AnalyzeIdle
  /\ ConcurrentIdle
  /\ OptimizeIdle
  /\ ExtractIdle
  /\ SectionsIdle
  /\ PrioritizeIdle

\* AIService.calculateSimilarity(product1, product2)
ScoreByService ==
  /\ simpc = "call"
  /\ simScore' = calculateSimilarity(simProduct1, simProduct2)
  /\ simpc' = "service"
  /\ UNCHANGED <<simProduct1, simProduct2, coreVars, optVars, extractVars,
                 sectionVars, prioVars, analyzeVars, concVars>>

\* calculateSimilarity(productData, product) of the extraction route
ScoreByRoute ==
  /\ simpc = "call"
  /\ simScore' = routeCalculateSimilarity(simProduct1, simProduct2)
  /\ simpc' = "route"
  /\ UNCHANGED <<simProduct1, simProduct2, coreVars, optVars, extractVars,
                 sectionVars, prioVars, analyzeVars, concVars>>

SimilarityNext == ScoreByService \/ ScoreByRoute

SpecSimilarity == SimilarityInit /\ [][SimilarityNext]_vars

(***************************************************************************)
(* AIService.analyzeProductSimilarity(productData, existingProducts).  The *)
(* _id of the k-th existing product is k.                                  *)
(***************************************************************************)
\* a > b for two scores
greater(a, b) == a.num * b.den > b.num * a.den

\* The loop: `similarities` after the existing products from position k on.
RECURSIVE similarities(_, _, _)
similarities(productData, existingProducts, k) ==
  IF k > Len(existingProducts) THEN <<>>
  ELSE LET similarity == calculateSimilarity(productData, existingProducts[k])
       IN (IF greater(similarity, Ratio(3, 10))
           THEN <<[id |-> k, name |-> existingProducts[k].name, similarity |-> similarity]>>
           ELSE <<>>)
          \o similarities(productData, existingProducts, k + 1)

\* .slice(0, 5)
slice5(list) == SubSeq(list, 1, IF Len(list) < 5 THEN Len(list) ELSE 5)

mostSimilar_unsorted(list) == slice5(list)

\* .sort((a, b) => b.similarity - a.similarity).slice(0, 5); the sort is stable
mostSimilar(list) ==
  LET before(j, k) ==
        \/ greater(list[j].similarity, list[k].similarity)
        \/ list[j].similarity = list[k].similarity /\ j < k
      sorted(p) ==
        list[CHOOSE k \in 1..Len(list) :
               Cardinality({j \in 1..Len(list) : before(j, k)}) = p - 1]
      RECURSIVE upTo(_)
      upTo(p) == IF p = 0 THEN <<>> ELSE Append(upTo(p - 1), sorted(p))
  IN slice5(upTo(Len(list)))

analyzeProductSimilarity(productData, existingProducts) ==
  IF ~ truthy(existingProducts) THEN [kind |-> "return", list |-> <<>>]
  ELSE IF Len(existingProducts.val) = 0 THEN [kind |-> "return", list |-> <<>>]
  ELSE IF \E k \in 1..Len(existingProducts.val) :
            toLowerCaseFails(productData, existingProducts.val[k])
  THEN [kind |-> "throw", error |-> "TypeError"]
  ELSE [kind |-> "return",
        list |-> mostSimilar(similarities(productData, existingProducts.val, 1))]

AnalyzedProducts == {Entry(Str(<<"a", "b">>), Str(<<"x">>)), Entry(Num, Str(<<"x">>))}

CatalogProducts ==
  { Entry(Str(<<"a", "b">>), Str(<<"x">>)), Entry(Str(<<"A", "b">>), Str(<<"y">>)),
    Entry(Str(<<"b">>), Str(<<"x">>)), Entry(Str(<<"b">>), Str(<<"y">>)) }

Catalogs ==
  {Undefined}
  \cup { JSArray(list) : list \in UNION { [1..n -> CatalogProducts] : n \in 0..MaxExisting } }

AnalyzeInit ==
  /\ anProduct \in AnalyzedProducts
  /\ anExisting \in Catalogs
  /\ anResult = <<>>
  /\ anpc = "call"
  /\ CoreIdle
  /\ ConcurrentIdle
  /\ OptimizeIdle
  /\ ExtractIdle
  /\ SectionsIdle
  /\ PrioritizeIdle
  /\ SimilarityIdle

Analyze ==
  /\ anpc = "call"
  /\ anResult' = analyzeProductSimilarity(anProduct, anExisting)
  /\ anpc' = "settled"
  /\ UNCHANGED <<anProduct, anExisting, coreVars, optVars, extractVars,
                 sectionVars, prioVars, simVars, concVars>>

AnalyzeNext == Analyze

SpecAnalyze == AnalyzeInit /\ [][AnalyzeNext]_vars

(***************************************************************************)
(* Two calls of processMultipleChunks that run at the same time on the     *)
(* one AIService instance the module exports.  A call gives up control at  *)
(* its `await axios.post(...)` only, so the steps of the two calls         *)
(* interleave there.  allProducts, processingNotes, prioritizedChunks and  *)
(* i are local variables of the call: they live in the call's frame.  The  *)
(* instance's fields (providers, currentProvider, textOptimizer) are set   *)
(* in the constructor and only read afterwards.                            *)
(***************************************************************************)
Requests == {1, 2}

frameOf_instanceField(r) == 1

\* The frame that holds the local variables of the call r: its own.
frameOf(r) == r

NewFrame ==
  [prioritizedChunks |-> <<>>, i |-> 0, allProducts |-> <<>>, processingNotes |-> <<>>]

\* Lists of 2..MaxConcurrentChunks chunks, the last of which holds a keyword.
ConcurrentChunkLists ==
  { [k \in 1..n |-> IF k = n THEN Cap ELSE <<"a", "a">>] : n \in 2..MaxConcurrentChunks }

ConcurrentAnswerSamples ==
  { Rejected(<<"Network Error">>, <<>>),
    Completed(Str(<<Obj(Body(<<ProductA>>, Summary(1, <<Str(<<"b">>)>>, Str(<<"o", "k">>))))>>)),
    Completed(Str(<<Obj(Body(<<ProductA2, ProductC>>, NoSummary))>>)) }

ConcurrentInit ==
  /\ requests \in [Requests -> { [chunks |-> cs, pc |-> "multi_start",
                                  attempts |-> <<>>, result |-> NoResult] :
                                  cs \in ConcurrentChunkLists }]
  /\ frames = [f \in Requests |-> NewFrame]
  /\ CoreIdle
  /\ OptimizeIdle
  /\ ExtractIdle
  /\ SectionsIdle
  /\ PrioritizeIdle
  /\ SimilarityIdle
  /\ AnalyzeIdle

concurrentOthers ==
  <<coreVars, optVars, extractVars, sectionVars, prioVars, simVars, analyzeVars>>

\* processMultipleChunks, lines 282-288
CallStart(r) ==
  /\ requests[r].pc = "multi_start"
  /\ frames' = [frames EXCEPT ![frameOf(r)] =
                  [prioritizedChunks |-> prioritizeChunks(requests[r].chunks),
                   i |-> 0, allProducts |-> <<>>, processingNotes |-> <<>>]]
  /\ requests' = [requests EXCEPT ![r].pc = "multi_loop"]
  /\ UNCHANGED concurrentOthers

\* processMultipleChunks, lines 290-320: the loop's test, and the request is sent
CallPost(r) ==
  /\ requests[r].pc = "multi_loop"
  /\ frames[frameOf(r)].i < Len(frames[frameOf(r)].prioritizedChunks)
  /\ requests' = [requests EXCEPT ![r].pc = "multi_await"]
  /\ UNCHANGED <<frames, concurrentOthers>>

\* processMultipleChunks, lines 322-338: the request is answered, the rest of the
\* loop body runs, and i++
CallAnswer(r) ==
  /\ requests[r].pc = "multi_await"
  /\ \E answer \in ConcurrentAnswerSamples :
       LET position == frames[frameOf(r)].i + 1
           updated(st) ==
             [frames EXCEPT ![frameOf(r)] =
                [@ EXCEPT !.allProducts = st.allProducts,
                          !.processingNotes = st.processingNotes,
                          !.i = @ + 1]]
       IN /\ frames' = updated(chunkAnswered(
                          [allProducts |-> frames[frameOf(r)].allProducts,
                           processingNotes |-> frames[frameOf(r)].processingNotes],
                          position, answer))
          /\ requests' = [requests EXCEPT
                            ![r].pc = "multi_loop",
                            ![r].attempts =
                              Append(@, [position |-> position, answer |-> answer])]
  /\ UNCHANGED concurrentOthers

\* processMultipleChunks, lines 340-350: the loop is left
CallFinish(r) ==
  /\ requests[r].pc = "multi_loop"
  /\ frames[frameOf(r)].i >= Len(frames[frameOf(r)].prioritizedChunks)
  /\ requests' = [requests EXCEPT
                    ![r].pc = "done",
                    ![r].result = multiChunkResult(requests[r].chunks,
                                                   frames[frameOf(r)].allProducts,
                                                   frames[frameOf(r)].processingNotes)]
  /\ UNCHANGED <<frames, concurrentOthers>>

ConcurrentNext ==
  \E r \in Requests : CallStart(r) \/ CallPost(r) \/ CallAnswer(r) \/ CallFinish(r)

SpecConcurrent == ConcurrentInit /\ [][ConcurrentNext]_vars

\* The lines of all chunks, in chunk order.
RECURSIVE chunkLines(_)
chunkLines(cs) ==
  IF cs = <<>> THEN <<>> ELSE split(Head(cs), NL) \o chunkLines(Tail(cs))

(***************************************************************************)
(* C3: every chunk returned by chunkText has an estimated token count of   *)
(* at most the budget, unless it consists of one single line that alone    *)
(* exceeds the budget.  (The code adds up per-line estimates and does not  *)
(* count the newline that joins the lines.)                                *)
(***************************************************************************)
C3_ChunkWithinBudget ==
  cpc = "returned" =>
    \A k \in 1..Len(chunks) :
      \/ estimateTokens(chunks[k]) <= budget
      \/ Len(split(chunks[k], NL)) = 1

(***************************************************************************)
(* C4: the lines of the chunks, concatenated in chunk order, are exactly   *)
(* the lines of the input text.                                            *)
(***************************************************************************)
C4_LinesPreserved ==
  cpc = "returned" => chunkLines(chunks) = split(text, NL)

(***************************************************************************)
(* C10: a text whose estimate is within the budget comes back as exactly   *)
(* one chunk, equal to the text.                                           *)
(***************************************************************************)
C10_UnderBudgetOneChunk ==
  (cpc = "returned" /\ estimateTokens(text) <= budget) => chunks = <<text>>

\* A text of several lines with white space at its edges, within the budget.
C10_Witness ==
  /\ cpc = "returned"
  /\ estimateTokens(text) <= budget
  /\ Len(split(text, NL)) > 1
  /\ trim(text) # text
  /\ chunks = <<text>>

\* (name.toLowerCase(), category.toLowerCase()) of a candidate
lowerPair(product) == <<optLower(product.name), optLower(product.category)>>

\* The entries of L that are the first of L with their lower-cased pair, in L's order.
RECURSIVE firstOfEachPair(_, _)
firstOfEachPair(L, seenPairs) ==
  IF L = <<>> THEN <<>>
  ELSE IF lowerPair(Head(L)) \in seenPairs
       THEN firstOfEachPair(Tail(L), seenPairs)
       ELSE <<Head(L)>> \o firstOfEachPair(Tail(L), seenPairs \cup {lowerPair(Head(L))})

NoEqualPairs(L) ==
  \A j, k \in 1..Len(L) : j # k => lowerPair(L[j]) # lowerPair(L[k])

(***************************************************************************)
(* C7: removeDuplicateProducts(L) holds no two entries with equal          *)
(* (lower-cased name, lower-cased category) pairs, keeps for each pair the *)
(* first entry of L that has it, in L's order, and is idempotent.  (The    *)
(* code's key joins the two halves with "-", so two different pairs can    *)
(* make the same key, and the later entry is dropped.)                     *)
(***************************************************************************)
C7_DedupeFirstOfEachPair ==
  /\ dpc \in {"deduped", "again"} =>
       /\ NoEqualPairs(unique)
       /\ unique = firstOfEachPair(products, {})
  /\ dpc = "again" => unique2 = unique

\* The response text holds a "{" with a "}" somewhere after it.
HasBraceSpan(cs) ==
  \E j, k \in 1..Len(cs) : j < k /\ cs[j] = "{" /\ cs[k] = "}"

\* The response text, lower-cased, holds one of the apology/refusal phrases.
HasRefusalPhrase(cs) ==
  \E phrase \in RefusalPhrases : includes(toLowerCase(cs), phrase)

(***************************************************************************)
(* C5: a response that holds apology/refusal phrasing, or no "{"..."}"     *)
(* span, is not thrown on: the parser returns no products, totalProducts   *)
(* 0 and a non-empty processingNotes, which for a refusal is exactly "No   *)
(* product information found in the provided text."                        *)
(***************************************************************************)
C5_FailsClosed ==
  ppc = "returned" =>
    LET cs == responseChars(aiResponse) IN
    /\ (HasRefusalPhrase(cs) \/ ~HasBraceSpan(cs)) =>
         /\ parseResult.kind = "return"
         /\ parseResult.products = <<>>
         /\ parseResult.summary.totalProducts = 0
         /\ parseResult.summary.processingNotes.type = "string"
         /\ parseResult.summary.processingNotes.val # <<>>
    /\ HasRefusalPhrase(cs) =>
         parseResult.summary.processingNotes = Str(NoProductInformation)

\* A refusal that also carries a well-formed object with a product has been parsed.
C5_Witness ==
  /\ ppc = "returned"
  /\ HasRefusalPhrase(responseChars(aiResponse))
  /\ \E k \in 1..Len(aiResponse) :
       aiResponse[k].t = "obj" /\ aiResponse[k].body.products # <<>>
  /\ parseResult.kind = "return"
  /\ parseResult.products = <<>>

\* name and category of an entry are strings (present and of type string)
IsStringValue(v) == v.type = "string"

\* The parser got as far as a JSON object with a products array: no refusal
\* phrase, and the span from the first "{" to the last "}" is one object text.
LocatedProducts(resp) ==
  /\ ~HasRefusalPhrase(responseChars(resp))
  /\ \E k \in 1..Len(resp) :
       /\ resp[k].t = "obj"
       /\ resp[k].body.hasProductsArray
       /\ \A j \in 1..Len(resp) : j # k => resp[j].t = "text" /\ resp[j].chars \notin {<<"{">>, <<"}">>}

TheProducts(resp) ==
  LET k == CHOOSE k \in 1..Len(resp) : resp[k].t = "obj" IN resp[k].body.products

(***************************************************************************)
(* C6: when a JSON object is located and an entry of its products array    *)
(* has a name or category that is absent or no string, the parse is        *)
(* rejected with an error that names the entry, and no product list is     *)
(* returned; every product of a returned result has a non-empty string     *)
(* name and a non-empty string category.                                   *)
(***************************************************************************)
C6_RejectsInvalidEntries ==
  ppc = "returned" =>
    /\ ( /\ LocatedProducts(aiResponse)
         /\ \E k \in 1..Len(TheProducts(aiResponse)) :
              \/ ~IsStringValue(TheProducts(aiResponse)[k].name)
              \/ ~IsStringValue(TheProducts(aiResponse)[k].category) )
       => /\ parseResult.kind = "throw"
          /\ parseResult.products = <<>>
          /\ Len(parseResult.message) = 4
          /\ parseResult.message[4] \in {": missing or invalid name", ": missing or invalid category"}
    /\ parseResult.kind = "return" =>
         \A k \in 1..Len(parseResult.products) :
           /\ IsStringValue(parseResult.products[k].name) /\ parseResult.products[k].name.val # <<>>
           /\ IsStringValue(parseResult.products[k].category) /\ parseResult.products[k].category.val # <<>>

\* An object whose first entry is valid and whose second has no string category
\* has been rejected.
C6_Witness ==
  /\ ppc = "returned"
  /\ LocatedProducts(aiResponse)
  /\ Len(TheProducts(aiResponse)) = 2
  /\ TheProducts(aiResponse)[1] = GoodEntry
  /\ ~IsStringValue(TheProducts(aiResponse)[2].category)
  /\ parseResult.kind = "throw"

(***************************************************************************)
(* Claims about the job.                                                   *)
(***************************************************************************)
\* The job went through processMultipleChunks with two or more chunks.
MultiChunkJob == Len(jobChunks) >= 2

\* The request was rejected, or its completion has no text that the parser can
\* turn into products: no content, an apology, no "{"..."}" span, or text the
\* parser throws on.
ChunkFailed(answer) ==
  \/ answer.kind = "error"
  \/ answer.content.type # "string"
  \/ HasRefusalPhrase(responseChars(answer.content.val))
  \/ ~HasBraceSpan(responseChars(answer.content.val))
  \/ parseAndValidateResponse(answer.content).kind = "throw"

\* The products of the attempts that did not fail, in the order of the attempts.
RECURSIVE succeededProducts(_)
succeededProducts(as) ==
  IF as = <<>> THEN <<>>
  ELSE (IF ChunkFailed(Head(as).answer) THEN <<>>
        ELSE parseAndValidateResponse(Head(as).answer.content).products)
       \o succeededProducts(Tail(as))

\* A processing note attributed to the chunk at position k.
NoteOfChunk(note, k) ==
  Len(note) > 3 /\ SubSeq(note, 1, 3) = <<"Chunk ", ToString(k), ": ">>

(***************************************************************************)
(* C1: in a job of two or more chunks, a chunk whose request or response   *)
(* fails leaves a processing note with its position, every chunk is still  *)
(* submitted, the job returns (never throws), and what it returns is the   *)
(* deduplicated list of the products of all chunks that succeeded.         *)
(***************************************************************************)
C1_ChunkFailureIsNotFatal ==
  MultiChunkJob =>
    /\ \A a \in 1..Len(attempts) :
         ChunkFailed(attempts[a].answer) =>
           \E n \in 1..Len(processingNotes) :
             NoteOfChunk(processingNotes[n], attempts[a].position)
    /\ result.kind # "throw"
    /\ pc = "done" =>
         /\ result.kind = "return"
         /\ Len(callLog) = Len(jobChunks)
         /\ Len(attempts) = Len(jobChunks)
         /\ result.products = removeDuplicateProducts(succeededProducts(attempts))
         /\ \A a \in 1..Len(attempts) :
              ChunkFailed(attempts[a].answer) =>
                includes(result.summary.processingNotes.val,
                         <<"Chunk ", ToString(attempts[a].position), ": ">>)

\* A job of three chunks whose second chunk was rejected and whose first and
\* third chunks gave different products has returned them.
C1_Witness ==
  /\ pc = "done"
  /\ Len(jobChunks) = 3
  /\ Len(attempts) = 3
  /\ ~ChunkFailed(attempts[1].answer)
  /\ attempts[2].answer.kind = "error"
  /\ ~ChunkFailed(attempts[3].answer)
  /\ result.kind = "return"
  /\ result.products = <<withDefaults(ProductA), withDefaults(ProductC)>>

AllChunksFailed ==
  /\ Len(attempts) = Len(jobChunks)
  /\ \A a \in 1..Len(attempts) : ChunkFailed(attempts[a].answer)

EmptyWithNotes(r) ==
  /\ r.kind = "return"
  /\ r.products = <<>>
  /\ r.summary.processingNotes.type = "string"
  /\ r.summary.processingNotes.val # <<>>

C8_ResultHasNoDuplicates ==
  (pc = "done" /\ result.kind = "return") => NoEqualPairs(result.products)

C12_OptimizeIdempotent ==
  opc = "twice" => optTwice = optOnce

\* The properties a product must carry after validation.
RequiredProperties ==
  {"specifications", "pricing", "features", "certifications", "sustainability",
   "categoryFilters", "commonFilters", "customization"}

\* The entry carries name and category and no other property.
OnlyNameAndCategory(e) == e = Entry(e.name, e.category)

(***************************************************************************)
(* C13: when the entries of the parsed response carry name and category    *)
(* only, the parser returns one product for each entry, and each has       *)
(* specifications, pricing, features, certifications, sustainability,      *)
(* categoryFilters, commonFilters and customization that are neither       *)
(* undefined nor null.                                                     *)
(***************************************************************************)
C13_DefaultsFilled ==
  ( /\ ppc = "returned"
    /\ parseResult.kind = "return"
    /\ LocatedProducts(aiResponse)
    /\ \A k \in 1..Len(TheProducts(aiResponse)) :
         OnlyNameAndCategory(TheProducts(aiResponse)[k]) )
  => /\ Len(parseResult.products) = Len(TheProducts(aiResponse))
     /\ \A k \in 1..Len(parseResult.products) :
          /\ parseResult.products[k].name = TheProducts(aiResponse)[k].name
          /\ \A f \in RequiredProperties :
               parseResult.products[k][f].type \notin {"undefined", "null"}

\* A response of two entries with name and category only has been returned as
\* two products with the default sustainability and generated filters.
C13_Witness ==
  /\ ppc = "returned"
  /\ parseResult.kind = "return"
  /\ LocatedProducts(aiResponse)
  /\ TheProducts(aiResponse) = <<GoodEntry, GoodEntry>>
  /\ Len(parseResult.products) = 2
  /\ parseResult.products[2].sustainability = DefaultSustainability
  /\ parseResult.products[2].commonFilters.type = "array"
  /\ Len(parseResult.products[2].commonFilters.val) = 1

(***************************************************************************)
(* C14: every format extractor (spreadsheet, PDF, slide deck) given a      *)
(* buffer that cannot be read returns, and what it returns is a non-empty  *)
(* text that states the byte length and the failure.  (extractFromExcel    *)
(* and extractFromPDF throw "... extraction failed: ..." instead.)         *)
(***************************************************************************)
C14_ExtractorsReturnPlaceholder ==
  (epc = "returned" /\ ~fileBuffer.ok) =>
    /\ extracted.kind = "return"
    /\ extracted.text # <<>>
    /\ \E k \in 1..Len(extracted.text) : extracted.text[k] = ToString(fileBuffer.length)
    /\ includes(extracted.text, fileBuffer.message)

\* The indices of the lines of t that hold a keyword.
keywordLines(t) ==
  {k \in 1..Len(split(t, NL)) : hasProductKeyword(split(t, NL)[k])}

\* The lines of ls at the indices of S, in ascending order of the index.
RECURSIVE linesAt(_, _, _)
linesAt(ls, S, k) ==
  IF k > Len(ls) THEN <<>>
  ELSE (IF k \in S THEN <<ls[k]>> ELSE <<>>) \o linesAt(ls, S, k + 1)

\* The indices within w lines of a keyword line.
window(t, w) ==
  {j \in 1..Len(split(t, NL)) : \E k \in keywordLines(t) : j >= k - w /\ j <= k + w}

(***************************************************************************)
(* C15: when some line holds a keyword, the filter returns the lines whose *)
(* index is within 2 of the index of a keyword line, each index once, in   *)
(* the order in which the scan meets them (the order of the text).  (The   *)
(* code takes 1 line on each side, and leaves out a line equal to one it   *)
(* has taken.)                                                             *)
(***************************************************************************)
C15_ContextWindowOfTwo ==
  (spc = "returned" /\ keywordLines(secText) # {}) =>
    sections = join(linesAt(split(secText, NL), window(secText, 2), 1), NL)

(***************************************************************************)
(* C16: a text without a keyword line comes back unchanged, and the result *)
(* for a non-empty text is non-empty.                                      *)
(***************************************************************************)
C16_NoKeywordUnchanged ==
  spc = "returned" =>
    /\ keywordLines(secText) = {} => sections = secText
    /\ secText # <<>> => sections # <<>>

\* A text of several lines, an empty one among them, and no keyword.
C16_Witness ==
  /\ spc = "returned"
  /\ keywordLines(secText) = {}
  /\ Len(split(secText, NL)) = 3
  /\ split(secText, NL)[2] = <<>>
  /\ sections = secText

\* How often the line x stands in ls.
count(ls, x) == Cardinality({k \in 1..Len(ls) : ls[k] = x})

(***************************************************************************)
(* C17: a keyword line that stands in the text more than once stands in    *)
(* the result as often.  (The code leaves out a line equal to one it has   *)
(* taken.)                                                                 *)
(***************************************************************************)
C17_RepeatedLinesKept ==
  spc = "returned" =>
    \A k \in keywordLines(secText) :
      count(split(sections, NL), split(secText, NL)[k])
        >= count(split(secText, NL), split(secText, NL)[k])

\* The chunks of cs whose relevance is r, in the order of cs.
RECURSIVE withRelevance(_, _)
withRelevance(cs, r) ==
  IF cs = <<>> THEN <<>>
  ELSE (IF relevance(Head(cs)) = r THEN <<Head(cs)>> ELSE <<>>)
       \o withRelevance(Tail(cs), r)

(***************************************************************************)
(* C18: prioritizeChunks returns its chunks, each as often as it was       *)
(* given, in the order of non-increasing relevance (the number of          *)
(* occurrences of the keywords in the lower-cased chunk), and chunks of    *)
(* equal relevance stand in the order in which they were given.            *)
(***************************************************************************)
C18_PrioritizeStableDescending ==
  prpc = "returned" =>
    /\ Len(prioritized) = Len(prioChunks)
    /\ \A k \in 1..Len(prioChunks) :
         count(prioritized, prioChunks[k]) = count(prioChunks, prioChunks[k])
    /\ \A p, q \in 1..Len(prioritized) :
         p < q => relevance(prioritized[p]) >= relevance(prioritized[q])
    /\ \A k \in 1..Len(prioChunks) :
         withRelevance(prioritized, relevance(prioChunks[k]))
           = withRelevance(prioChunks, relevance(prioChunks[k]))

\* Three chunks, the first without a keyword and the other two with one keyword
\* each, come back with the first one last and the other two in their order.
C18_Witness ==
  /\ prpc = "returned"
  /\ prioChunks = << <<"a", "a">>, <<"J", "a", "r">>, Cap >>
  /\ prioritized = << <<"J", "a", "r">>, Cap, <<"a", "a">> >>

\* The score is a number between 0 and 1.
InUnitInterval(r) == r.type = "number" /\ 0 <= r.num /\ r.num <= r.den

\* name, category, material and capacity of the product are there, the
\* capacity with a positive value.
AllPresent(product) ==
  /\ truthy(product.name)
  /\ truthy(product.category)
  /\ truthy(materialOf(product))
  /\ capacityValue(product) > 0

(***************************************************************************)
(* C19: the score either scorer returns for two products lies in [0,1],    *)
(* and the score of a product with itself is 1 when the product has a      *)
(* name, a category, a material and a capacity.  (The scorer of the        *)
(* extraction route divides name + 0.5 + 0.3 by 3 and so gives 0.6.)       *)
(***************************************************************************)
C19_ScoreInUnitIntervalSelfOne ==
  (simpc \in {"service", "route"} /\ simScore.type = "number") =>
    /\ InUnitInterval(simScore)
    /\ (simProduct1 = simProduct2 /\ AllPresent(simProduct1)) => simScore = Ratio(1, 1)

\* The sum of the weights of the factors whose preconditions held: the name
\* on both sides (0.4), the category (0.3), the material on both sides (0.2),
\* the capacities both positive (0.1).
heldWeights(product1, product2) ==
  Ratio((IF both(product1.name, product2.name) THEN 4 ELSE 0) + 3
        + (IF both(materialOf(product1), materialOf(product2)) THEN 2 ELSE 0)
        + (IF capacityValue(product1) > 0 /\ capacityValue(product2) > 0 THEN 1 ELSE 0),
        10)

(***************************************************************************)
(* C20: the score of AIService.calculateSimilarity is the weighted sum     *)
(* divided by the sum of the weights of the factors whose preconditions    *)
(* held.  (The code adds 0.3, 0.2 and 0.1 to the divisor in every call.)   *)
(***************************************************************************)
C20_DivisorOfHeldWeights ==
  (simpc = "service" /\ simScore.type = "number") =>
    simScore = dividedBy(weightedScore(simProduct1, simProduct2),
                         heldWeights(simProduct1, simProduct2))

(***************************************************************************)
(* C21: the processingNotes string a job of two or more chunks returns     *)
(* holds a note "Chunk k: ..." for every chunk k, succeeded or failed.     *)
(* (A chunk whose response parses and has no summary.processingNotes       *)
(* leaves no note.)                                                        *)
(***************************************************************************)
C21_EveryChunkLeavesNote ==
  (MultiChunkJob /\ pc = "done" /\ result.kind = "return") =>
    \A k \in 1..Len(jobChunks) :
      includes(result.summary.processingNotes.val, <<"Chunk ", ToString(k), ": ">>)

\* The attempts of the job are one for each of its chunks, in their order.
EachChunkOnce ==
  /\ Len(callLog) = Len(jobChunks)
  /\ Len(attempts) = Len(jobChunks)
  /\ \A a \in 1..Len(attempts) : attempts[a].position = a

RECURSIVE afterAttempts(_, _)
afterAttempts(st, as) ==
  IF as = <<>> THEN st
  ELSE afterAttempts(chunkAnswered(st, Head(as).position, Head(as).answer), Tail(as))

\* What a call with these chunks returns when it runs alone and its requests are
\* answered as in as.
aloneResult(cs, as) ==
  LET finished(st) == multiChunkResult(cs, st.allProducts, st.processingNotes)
  IN finished(afterAttempts([allProducts |-> <<>>, processingNotes |-> <<>>], as))

(***************************************************************************)
(* C23: two calls that run at the same time do not interfere.  At every    *)
(* moment the products and notes a call has gathered are those of its own  *)
(* answers, its loop index is the number of its own attempts, its chunks   *)
(* are tried once each in the order of prioritizeChunks, and what it       *)
(* returns is what it returns alone on the same answers.                   *)
(***************************************************************************)
C23_ConcurrentRequestsDoNotInterfere ==
  \A r \in Requests :
    LET gathered(st) ==
          /\ frames[r].allProducts = st.allProducts
          /\ frames[r].processingNotes = st.processingNotes
    IN /\ requests[r].pc # "multi_start" =>
            /\ frames[r].prioritizedChunks = prioritizeChunks(requests[r].chunks)
            /\ frames[r].i = Len(requests[r].attempts)
            /\ \A a \in 1..Len(requests[r].attempts) :
                 requests[r].attempts[a].position = a
            /\ gathered(afterAttempts([allProducts |-> <<>>, processingNotes |-> <<>>],
                                      requests[r].attempts))
       /\ requests[r].pc = "done" =>
            /\ Len(requests[r].attempts) = Len(requests[r].chunks)
            /\ requests[r].result = aloneResult(requests[r].chunks, requests[r].attempts)

\* Both calls wait for the answer to their second request, after different
\* answers to their first.
C23_Witness ==
  /\ \A r \in Requests : requests[r].pc = "multi_await" /\ Len(requests[r].attempts) = 1
  /\ requests[1].attempts[1].answer.kind = "error"
  /\ requests[2].attempts[1].answer.kind = "completion"
  /\ frames[1].allProducts = <<>>
  /\ frames[2].allProducts # <<>>

SubScores == {"recyclability", "carbonFootprint", "sustainableMaterials", "localSourcing"}

\* The entry of the response has neither ecoScore nor ecoScoreDetails.
OmitsEcoScore(e) == e.ecoScore = Undefined /\ e.ecoScoreDetails = Undefined

(***************************************************************************)
(* C24: a product whose entry in the response has neither ecoScore nor     *)
(* ecoScoreDetails is returned with the four sub-scores recyclability,     *)
(* carbonFootprint, sustainableMaterials and localSourcing, each a number  *)
(* from 0 to 100, and with an ecoScore that is their arithmetic mean; two  *)
(* such products with the same material and the same sustainability have   *)
(* the same sub-scores.                                                    *)
(***************************************************************************)
C24_EcoScoreIsMeanOfSubScores ==
  (ppc = "returned" /\ parseResult.kind = "return" /\ LocatedProducts(aiResponse)) =>
    \A k \in 1..Len(parseResult.products) :
      OmitsEcoScore(TheProducts(aiResponse)[k]) =>
        LET p == parseResult.products[k]
            d == p.ecoScoreDetails.val
        IN /\ p.ecoScoreDetails.type = "object"
           /\ DOMAIN d = SubScores
           /\ \A f \in SubScores : d[f].type = "number" /\ d[f].val \in 0..100
           /\ p.ecoScore.type = "number"
           /\ 4 * p.ecoScore.val
                = d.recyclability.val + d.carbonFootprint.val
                  + d.sustainableMaterials.val + d.localSourcing.val
           /\ \A j \in 1..Len(parseResult.products) :
                ( /\ OmitsEcoScore(TheProducts(aiResponse)[j])
                  /\ get(parseResult.products[j].specifications, "material")
                       = get(p.specifications, "material")
                  /\ parseResult.products[j].sustainability = p.sustainability )
                => parseResult.products[j].ecoScoreDetails = p.ecoScoreDetails

\* An entry without material or flags got 40, 60, 40, 60 and the score 50; an
\* entry of HDPE, carbon neutral, with 50 % recycled content got 100, 100, 80, 60
\* and the score 85.
C24_Witness ==
  /\ ppc = "returned"
  /\ parseResult.kind = "return"
  /\ LocatedProducts(aiResponse)
  /\ TheProducts(aiResponse) = <<GoodEntry, EntryWithMaterial>>
  /\ parseResult.products[1].ecoScore = Number(50)
  /\ parseResult.products[2].ecoScore = Number(85)
  /\ parseResult.products[2].ecoScoreDetails.val.sustainableMaterials = Number(80)

Returned == anpc = "settled" /\ anResult.kind = "return"

\* The positions of the existing products that are in the returned list.
included == {anResult.list[p].id : p \in 1..Len(anResult.list)}

(***************************************************************************)
(* C25: the list analyzeProductSimilarity returns has at most 5 entries,   *)
(* each the id, name and similarity of one existing product whose          *)
(* similarity is above 0.3, in non-increasing order of similarity, and no  *)
(* existing product left out of it has a higher similarity than an entry.  *)
(***************************************************************************)
C25_TopFiveAboveThreshold ==
  Returned =>
    LET list == anResult.list
        existing == anExisting.val
    IN /\ Len(list) <= 5
       /\ \A p \in 1..Len(list) :
            /\ list[p].id \in 1..Len(existing)
            /\ list[p].name = existing[list[p].id].name
            /\ list[p].similarity = calculateSimilarity(anProduct, existing[list[p].id])
            /\ greater(list[p].similarity, Ratio(3, 10))
       /\ \A p, q \in 1..Len(list) : p # q => list[p].id # list[q].id
       /\ \A p \in 1..Len(list) - 1 : ~ greater(list[p + 1].similarity, list[p].similarity)
       /\ \A k \in (1..Len(existing)) \ included : \A p \in 1..Len(list) :
            ~ greater(calculateSimilarity(anProduct, existing[k]), list[p].similarity)

\* Six existing products above the threshold, the most similar ones not first:
\* five are returned, the first of them is not the first existing product,
\* and the one left out is no more similar than the last one returned.
C25_Witness ==
  /\ Returned
  /\ Len(anExisting.val) = 6
  /\ Len(anResult.list) = 5
  /\ anResult.list[1].id = 2
  /\ anResult.list[5].id = 1
  /\ greater(anResult.list[1].similarity, anResult.list[5].similarity)
  /\ 6 \notin included
  /\ greater(calculateSimilarity(anProduct, anExisting.val[6]), Ratio(3, 10))

\* No slide part and no notes part of the deck holds a text.
Textless(entries) ==
  \A k \in 1..Len(entries) :
    entries[k].kind \in {"slide", "notes"} =>
      textLines(entries[k].texts) = <<>> /\ textLines(entries[k].runs) = <<>>

(***************************************************************************)
(* C26: for a slide deck that can be read and in which no slide part and   *)
(* no notes part holds a text, extractFromPowerPoint returns the           *)
(* placeholder that states the byte size and suggests a text-friendly      *)
(* format.  (The code appends a slide-break marker for every slide part,   *)
(* so a deck with a slide is returned as its markers.)                     *)
(***************************************************************************)
C26_TextlessDeckGetsPlaceholder ==
  ( /\ epc = "returned" /\ fileFormat = "powerpoint"
    /\ fileBuffer.ok /\ Textless(fileBuffer.content) )
  => extracted = ExtReturn(processedPlaceholder(fileBuffer.length))

(***************************************************************************)
(* C27: removeDuplicateProducts keeps every product whose (lower-cased     *)
(* name, lower-cased category) pair differs from the pair of every product *)
(* before it in the list, whatever characters the two hold.  (The key      *)
(* joins name and category with "-", so a product whose name ends with or  *)
(* whose category starts with "-" can get the key of an earlier, different *)
(* pair and is removed.)                                                   *)
(***************************************************************************)
C27_NewPairNeverRemoved ==
  dpc \in {"deduped", "again"} =>
    \A k \in 1..Len(products) :
      (\A j \in 1..(k - 1) : lowerPair(products[j]) # lowerPair(products[k]))
      => \E m \in 1..Len(unique) : unique[m] = products[k]

(***************************************************************************)
(* C28: every result a job returns, of one chunk or of several, has a      *)
(* summary whose totalProducts is the length of the products list and      *)
(* whose categories are exactly the categories of the products in the      *)
(* list.  (processSingleChunk returns the parsed response as it is, with   *)
(* the summary the response holds or with none.)                           *)
(***************************************************************************)
C28_SummaryMatchesProducts ==
  (pc = "done" /\ result.kind = "return") =>
    /\ result.summary.present
    /\ result.summary.totalProducts = Len(result.products)
    /\ {result.summary.categories[k] : k \in 1..Len(result.summary.categories)}
         = {result.products[k].category : k \in 1..Len(result.products)}

\* The raw text has several lines, each within the budget, and more tokens
\* than the budget, before and after optimizeText.
SeveralLinesOverBudget ==
  LET lines == split(extractedText, NL)
      maxTokens == maxTokensOf(currentProvider)
  IN /\ Len(lines) > 1
     /\ \A k \in 1..Len(lines) : estimateTokens(lines[k]) <= maxTokens
     /\ estimateTokens(extractedText) > maxTokens
     /\ estimateTokens(optimizedText) > maxTokens

(***************************************************************************)
(* C29: in processWithAI, when the raw text has several lines, each within *)
(* the provider's budget, and more tokens than the budget, the normalized  *)
(* text is split into more than one chunk and every request to the LLM     *)
(* carries a chunk within the budget.  (optimizeText replaces every run of *)
(* whitespace, newlines included, by one space, so chunkText receives one  *)
(* line and returns it as one chunk above the budget.)                     *)
(***************************************************************************)
C29_LongTextSplitWithinBudget ==
  ( /\ entry = "processWithAI"
    /\ pc \notin {"received", "optimized"}
    /\ currentProvider # "null"
    /\ SeveralLinesOverBudget )
  => /\ Len(jobChunks) > 1
     /\ \A k \in 1..Len(callLog) :
          estimateTokens(callLog[k]) <= maxTokensOf(currentProvider)

\* The response is words around one JSON object whose products array is not
\* empty and holds entries with a non-empty string name and category.
ObjectWithProducts(resp) ==
  /\ \E k \in 1..Len(resp) :
       /\ resp[k].t = "obj"
       /\ resp[k].body.hasProductsArray
       /\ \A j \in 1..Len(resp) :
            j # k => resp[j].t = "text" /\ resp[j].chars \notin {<<"{">>, <<"}">>}
  /\ TheProducts(resp) # <<>>
  /\ \A k \in 1..Len(TheProducts(resp)) :
       /\ IsStringValue(TheProducts(resp)[k].name) /\ TheProducts(resp)[k].name.val # <<>>
       /\ IsStringValue(TheProducts(resp)[k].category)
       /\ TheProducts(resp)[k].category.val # <<>>

(***************************************************************************)
(* C30: when the response holds a well-formed JSON object whose products   *)
(* array is not empty and whose entries have a string name and category,   *)
(* parseAndValidateResponse returns those products, whatever words stand   *)
(* around the object.  (A response that holds "sorry", "unable to extract" *)
(* or "no actual product information" anywhere is answered with an empty   *)
(* product list before the object is looked for.)                          *)
(***************************************************************************)
C30_ProductsReturnedWhateverWords ==
  (ppc = "returned" /\ ObjectWithProducts(aiResponse)) =>
    /\ parseResult.kind = "return"
    /\ Len(parseResult.products) = Len(TheProducts(aiResponse))
    /\ \A k \in 1..Len(parseResult.products) :
         /\ parseResult.products[k].name = TheProducts(aiResponse)[k].name
         /\ parseResult.products[k].category = TheProducts(aiResponse)[k].category

====
